---- MODULE Spec2Model ----
(***************************************************************************)
(* State-machine model of the ingest collector hook                        *)
(* (hooks/tk-multi-publish2/ingest/collector.py).                          *)
(*                                                                         *)
(* Python dictionaries are TLA+ functions whose domain is the key set;     *)
(* d.update(e) is  e @@ d ;  a missing key is a key outside the DOMAIN.    *)
(* File system paths are records [abs, parts]: a flag for an absolute path *)
(* and the sequence of path components.                                    *)
(***************************************************************************)
EXTENDS Integers, Sequences, FiniteSets, TLC

\* ------------------------------------------------------------------------
\* Bounds of the model
\* ------------------------------------------------------------------------
MaxSnapshots == 1
MaxNotes == 2
MaxVersions == 1
\* the documents _collect_manifest_file is run on
CollectMaxSnapshots == 1
CollectMaxNotes == 1
CollectMaxVersions == 1
\* the items one call of _collect_folder returns for a directory
FolderItemCount == 2
\* the candidates the base class returns and their resolution orders
MaxCandidates == 2
MaxOrder == 2
\* passes of _resolve_item_fields on one item
MaxPasses == 2
\* sequential calls of _query_associated_tags and the names one call is given
MaxTagCalls == 3
MaxTagNames == 2
\* runs of _create_linked_entity for one item
MaxLinkedRuns == 2
\* sequential calls of _add_file_item on one parent item
MaxAddCalls == 2
\* sequential runs of _get_item_context_from_path for one path
MaxRuns == 3
\* items one plugin instance looks the linked entity up for
MaxItems == 3

\* ------------------------------------------------------------------------
\* Dictionary helpers
\* ------------------------------------------------------------------------
EmptyDict == [k \in {} |-> k]

\* d.pop(k) / dropping a key: the dictionary restricted to the other keys
DropKey(d, k) == [x \in (DOMAIN d) \ {k} |-> d[x]]

\* a scalar manifest value, tagged by the record it was read from
Val(src, idx, key) == [src |-> src, idx |-> idx, key |-> key]

\* ------------------------------------------------------------------------
\* Paths: os.path.join, os.path.dirname
\* ------------------------------------------------------------------------
Rel(parts) == [abs |-> FALSE, parts |-> parts]
Abs(parts) == [abs |-> TRUE, parts |-> parts]

\* os.path.join(a, b): an absolute b discards a
JoinPath(a, b) ==
    IF b.abs THEN b ELSE [abs |-> a.abs, parts |-> a.parts \o b.parts]

\* os.path.dirname(p): p without its last component
DirName(p) ==
    [abs |-> p.abs,
     parts |-> IF Len(p.parts) = 0 THEN <<>>
               ELSE SubSeq(p.parts, 1, Len(p.parts) - 1)]

\* the manifest file that is processed, and the directory it lies in
manifest_path == Abs(<<"pkg", "contents.yaml">>)
base_dir == DirName(manifest_path)

\* ------------------------------------------------------------------------
\* Field Mapper: DEFAULT_MANIFEST_SG_MAPPINGS and the key translation
\* ------------------------------------------------------------------------
FileSnapshotsMapping ==
    ("id" :> "sg_snapshot_id") @@ ("user" :> "snapshot_user") @@
    ("name" :> "manifest_name") @@ ("version" :> "snapshot_version")

NoteNotesMapping ==
    ("notes" :> "description") @@ ("name" :> "snapshot_name") @@
    ("body" :> "content") @@ ("id" :> "sg_client_note_id")

NoteSnapshotsMapping ==
    ("id" :> "sg_snapshot_id") @@ ("user" :> "snapshot_user") @@
    ("name" :> "manifest_name") @@ ("version" :> "snapshot_version")

NoteVersionsMapping ==
    ("id" :> "sg_client_version_id") @@ ("name" :> "version_name")

\* a wrong lookup: every key of the table is given the target of one entry
MapKeyWrongEntry(table, k) ==
    IF k \in DOMAIN table
    THEN table[CHOOSE j \in DOMAIN table : TRUE]
    ELSE k

\* mappings[k] if k in mappings else k
MapKey(table, k) ==
    IF k \in DOMAIN table THEN table[k] ELSE k

\* {mappings[k] if k in mappings else k: v for k, v in record.iteritems()}
\* (two keys of one record mapped to the same name: one of them is kept)
MapRecord(table, rec) ==
    LET mapped == {MapKey(table, k) : k \in DOMAIN rec}
    IN [m \in mapped |-> rec[CHOOSE k \in DOMAIN rec : MapKey(table, k) = m]]

\* ------------------------------------------------------------------------
\* State
\* ------------------------------------------------------------------------
VARIABLES
    file_state,          \* input: can the manifest be opened / deserialized
    contents,            \* input: the deserialized manifest document
    pc,                  \* position in _process_manifest_file / _collect_manifest_file
    snapshots,           \* local list snapshots
    notes,               \* local list notes
    versions,            \* local list versions (its records are mutated in place)
    snap_pos,            \* number of snapshots the first loop has processed
    notes_index,         \* local notes_index
    processed_snapshots, \* local list processed_snapshots (the return value)
    raised,              \* the exception that left the call, or "none"
    log,                 \* what was written to self.logger
    \* _collect_manifest_file
    entity_pos,          \* number of processed entities the item loop has passed
    keys_done,           \* keys of the current entity's files already iterated
    file_items,          \* local list file_items (the return value)
    sg_tags,             \* the Tag entities of the tracking database
    create_fail_tags,    \* input: tag names whose create call fails
    find_raise_tags,     \* input: tag names whose find_one call fails
    \* _get_filtered_item_types_from_settings
    f_pc,                        \* position in the method
    template_item_type_mapping,  \* the list the base class returned
    creation_properties,         \* argument creation_properties
    max_resolution_order,        \* local max_resolution_order
    filtered_mapping,            \* local filtered_template_item_type_mapping
    f_pos,                       \* number of candidates the loop has passed
    f_raised,                    \* the exception that left the call, or "none"
    \* Field Mapper round trip
    m_pc, m_table, m_key, m_mapped, m_back,
    \* _resolve_item_fields
    r_pc,                \* "idle", "ready" (the item can be resolved) or "raised"
    r_item,              \* the item: type info, context task, properties
    r_fields,            \* the fields the last pass returned
    r_passes,            \* number of passes made
    r_raised,            \* the exception that left the last pass, or "none"
    \* _query_associated_tags called on its own
    t_calls,             \* the calls made: arguments, database before, outcome
    \* ingest_files.py: publish, undo, _create_linked_entity
    p_pc,                \* position in publish
    p_item,              \* the item: context, snapshot_type, settings
    p_props,             \* item.properties: ingest_entity_data, sg_publish_data_list
    p_raised,            \* the step whose exception left publish, or "none"
    p_calls,             \* the calls made to the tracking database, in order
    sg_entities,         \* the Asset and Element entities of the database
    sg_published,        \* the PublishedFile entities of the database
    sg_next_id,          \* the id the database gives the next entity
    l_runs,              \* runs of _create_linked_entity made on its own
    c_pc,                \* _get_item_context_from_path: start, done, raised
    c_world,             \* input: what the path resolves to and what the
                         \* tracking database holds and answers
    c_context,           \* the context returned
    c_log,               \* what the resolver logged
    c_calls,             \* the database calls the resolver made
    a_settings,          \* input: Ignore Extensions and Ignore Filename
    a_children,          \* the children of the parent item
    a_log,               \* what _add_file_item logged
    a_calls,             \* the calls of _add_file_item made so far
    s_pc,                \* the match score of one candidate: start, done
    s_fields,            \* input: the manifest fields
    s_filters,           \* input: the candidate's manifest_field_filters
    s_score,             \* the match score computed
    sg_tasks,            \* the Task entities of the tracking database
    c_runs,              \* the sequential runs of the context resolver
    x_type,              \* two ingestions at once: Tag or Task is looked up
    x_names,             \* the names both ingestions look up, in order
    x_pc,                \* per ingestion: find, create, done
    x_found,             \* per ingestion: what its finds returned so far
    x_db,                \* the entities of the tracking database
    q_default,           \* the list object behind "fields=list()"
    q_queries,           \* the find_one calls of _find_linked_entity so far
    v_pc,                \* validate: start, done
    v_item,              \* input: the item validated
    v_world,             \* input: what the base class and the database answer
    v_result,            \* what validate returned
    v_log,               \* what validate logged
    v_schema             \* the valid values of sg_asset_type

manifestVars ==
    <<file_state, contents, pc, snapshots, notes, versions, snap_pos,
      notes_index, processed_snapshots, raised, log>>

collectVars ==
    <<entity_pos, keys_done, file_items, sg_tags, create_fail_tags,
      find_raise_tags>>

filterVars ==
    <<f_pc, template_item_type_mapping, creation_properties,
      max_resolution_order, filtered_mapping, f_pos, f_raised>>

mapperVars == <<m_pc, m_table, m_key, m_mapped, m_back>>

resolveVars == <<r_pc, r_item, r_fields, r_passes, r_raised>>

\* the state of the methods modelled further down
tagVars == <<t_calls>>

publishVars ==
    <<p_pc, p_item, p_props, p_raised, p_calls, sg_entities, sg_published,
      sg_next_id, l_runs>>

contextVars == <<c_pc, c_world, c_context, c_log, c_calls>>

addVars == <<a_settings, a_children, a_log, a_calls>>

scoreVars == <<s_pc, s_fields, s_filters, s_score>>

\* the groups of the methods modelled first and of those modelled last
settledVars ==
    <<manifestVars, collectVars, filterVars, mapperVars, resolveVars,
      tagVars, publishVars, contextVars, addVars>>

runVars == <<sg_tasks, c_runs>>

raceVars == <<x_type, x_names, x_pc, x_found, x_db>>

queryVars == <<q_default, q_queries>>

validateVars == <<v_pc, v_item, v_world, v_result, v_log, v_schema>>

moreVars == <<scoreVars, runVars, raceVars, queryVars, validateVars>>

laterVars ==
    <<resolveVars, tagVars, publishVars, contextVars, addVars, moreVars>>

\* ------------------------------------------------------------------------
\* Manifest documents the model reads (records of the YAML file)
\* ------------------------------------------------------------------------
PathEntry(p) == ("path" :> p)

DiscreteFiles(paths) ==
    ("files" :> [j \in 1..Len(paths) |-> PathEntry(paths[j])])

SequenceFiles(paths) ==
    ("frame_range" :> Val("snapshot", 0, "frame_range")) @@ DiscreteFiles(paths)

FileTypesMenu ==
    { ("main" :> DiscreteFiles(<<Rel(<<"a.mb">>)>>)) @@
      ("mayaBinary" :> DiscreteFiles(<<Rel(<<"a.mb">>)>>)),
      ("plate" :> SequenceFiles(<<Rel(<<"seq", "f.1.exr">>),
                                  Rel(<<"seq", "f.2.exr">>)>>)),
      ("plate" :> SequenceFiles(<<Rel(<<"seq", "f.1.exr">>),
                                  Rel(<<"seq", "f.2.exr">>)>>)) @@
      ("ref" :> DiscreteFiles(<<Rel(<<"a.mb">>), Rel(<<"a.mb">>),
                                Abs(<<"lib", "tex.tif">>)>>)) }

\* snapshot records that can stand at list position i
SnapshotMenu(i) ==
    { ("id" :> Val("snapshot", i, "id")) @@ ("file_types" :> ft) :
          ft \in FileTypesMenu }
    \cup
    { ("id" :> Val("snapshot", i, "id")) @@
      ("shot" :> Val("snapshot", i, "shot")) @@
      ("description" :> Val("snapshot", i, "description")) @@
      ("file_types" :> CHOOSE ft \in FileTypesMenu : DOMAIN ft = {"plate"}),
      \* a snapshot without file_types
      ("id" :> Val("snapshot", i, "id")) @@
      ("user" :> Val("snapshot", i, "user")) }

\* version records that can stand at list position i
VersionMenu(i) ==
    { ("id" :> Val("version", i, "id")) @@
      ("name" :> Val("version", i, "name")),
      ("id" :> Val("version", i, "id")) @@
      ("shot" :> Val("version", i, "shot")) @@
      ("description" :> Val("version", i, "description")) @@
      ("task" :> Val("version", i, "task")) @@
      ("notes" :> Val("version", i, "notes")) }

NoteLink(type, i) == ("type" :> type) @@ ("name" :> Val("note_link", i, type))

\* note records that can stand at list position i
NoteMenu(i) ==
    { ("note_type" :> "kickoff") @@
      ("id" :> Val("note", i, "id")) @@
      ("notes" :> Val("note", i, "notes")) @@
      ("attachments" :> <<PathEntry(Rel(<<"a1.txt">>)),
                          PathEntry(Rel(<<"sub", "a2.txt">>))>>),
      ("note_type" :> "kickoff") @@
      ("shot" :> Val("note", i, "shot")) @@
      ("note_links" :> <<NoteLink("Version", 1)>>) @@
      ("attachments" :> <<>>),
      ("note_type" :> "dailies") @@
      ("shot" :> Val("note", i, "shot")) @@
      ("notes" :> Val("note", i, "notes")) @@
      ("name" :> Val("note", i, "name")) @@
      ("task" :> Val("note", i, "task")) @@
      ("note_links" :> <<NoteLink("Version", 1), NoteLink("Shot", 2),
                         NoteLink("Version", 3)>>) @@
      ("attachments" :> <<PathEntry(Abs(<<"mnt", "a3.txt">>))>>),
      \* a note without an attachments key
      ("note_type" :> "dailies") @@
      ("shot" :> Val("note", i, "shot")),
      \* a note whose note_type has no item type
      ("note_type" :> "client") @@
      ("attachments" :> <<>>) }

\* the lists of at most n records whose element at position i is in Menu(i)
ListsOf(Menu(_), n) ==
    UNION { { s \in [1..len -> UNION {Menu(i) : i \in 0..(n - 1)}] :
                  \A j \in 1..len : s[j] \in Menu(j - 1) } : len \in 0..n }

\* the documents: "snapshots" can be missing; "notes" and "versions" are
\* optional keys
ManifestDocuments(maxS, maxN, maxV) ==
    { ("snapshots" :> s) @@ ("notes" :> n) @@ ("versions" :> v) :
          s \in ListsOf(SnapshotMenu, maxS),
          n \in ListsOf(NoteMenu, maxN),
          v \in ListsOf(VersionMenu, maxV) }
    \cup { ("snapshots" :> s) : s \in ListsOf(SnapshotMenu, maxS) }
    \cup { ("versions" :> <<>>), EmptyDict }

\* ------------------------------------------------------------------------
\* _process_manifest_file: the snapshot loop
\* ------------------------------------------------------------------------
LogEntry(level, msg) == [level |-> level, msg |-> msg]

\* the orders in which a dictionary with key set S can be iterated
Orderings(S) ==
    { o \in [1..Cardinality(S) -> S] :
          \A a, b \in 1..Cardinality(S) : o[a] = o[b] => a = b }

\* a tag collection that takes each name once
AddTagOnce(files, p, tag) ==
    IF p \in DOMAIN files
    THEN IF \E n \in 1..Len(files[p]) : files[p][n] = tag
         THEN files
         ELSE [files EXCEPT ![p] = Append(@, tag)]
    ELSE (p :> <<tag>>) @@ files

\* if append_path not in data["files"]: data["files"][append_path] = list()
\* data["files"][append_path].append(file_type)
AddTag(files, p, tag) ==
    IF p \in DOMAIN files
    THEN [files EXCEPT ![p] = Append(@, tag)]
    ELSE (p :> <<tag>>) @@ files

\* the group key of a file sequence, with the dirname step left out
SequenceGroupKeyNoDirname(spec) ==
    JoinPath(base_dir, spec["files"][1]["path"])

\* the group key of a file_types entry that has a frame_range
SequenceGroupKey(spec) ==
    DirName(JoinPath(base_dir, spec["files"][1]["path"]))

\* the group key of one listed file of an entry without frame_range
DiscreteGroupKey(entry) == JoinPath(base_dir, entry["path"])

RECURSIVE AddDiscreteFiles(_, _, _)
AddDiscreteFiles(files, p_files, tag) ==
    IF p_files = <<>> THEN files
    ELSE AddDiscreteFiles(AddTag(files, DiscreteGroupKey(Head(p_files)), tag),
                          Tail(p_files), tag)

\* the body of "for file_type, files in file_types.iteritems()"
ProcessFileType(files, tag, spec) ==
    IF "frame_range" \in DOMAIN spec
    THEN AddTag(files, SequenceGroupKey(spec), tag)
    ELSE AddDiscreteFiles(files, spec["files"], tag)

RECURSIVE ProcessFileTypes(_, _, _)
ProcessFileTypes(files, file_types, order) ==
    IF order = <<>> THEN files
    ELSE ProcessFileTypes(
             ProcessFileType(files, Head(order), file_types[Head(order)]),
             file_types, Tail(order))

\* files["files"][0] of an entry with frame_range needs a first file
FileTypesIndexError(file_types) ==
    \E t \in DOMAIN file_types :
        /\ "frame_range" \in DOMAIN file_types[t]
        /\ file_types[t]["files"] = <<>>

Entity(hook, fields, files) == [hook |-> hook, fields |-> fields, files |-> files]

\* where the call continues once n snapshots are processed: the second loop
\* runs while there are notes left, then the list is returned
AfterSnapshot(n, nsnaps, nnotes) ==
    IF n < nsnaps THEN "snapshots"
    ELSE IF nnotes > 0 THEN "notes" ELSE "parsed"

\* with open(path) ... yaml.load ... contents["snapshots"] ...
ReadManifest ==
    /\ pc = "read"
    /\ IF file_state = "unreadable"
       THEN \* open() is outside the try block: the IOError leaves the method
            /\ raised' = "IOError"
            /\ pc' = "raised"
            /\ UNCHANGED <<snapshots, notes, versions, processed_snapshots, log>>
       ELSE IF file_state = "invalid" \/ "snapshots" \notin DOMAIN contents
       THEN \* except Exception: log the error, return the empty list
            /\ log' = Append(log, LogEntry("error", "Failed to read the manifest file"))
            /\ pc' = "parsed"
            /\ UNCHANGED <<snapshots, notes, versions, processed_snapshots, raised>>
       ELSE /\ snapshots' = contents["snapshots"]
            /\ notes' = IF "notes" \in DOMAIN contents
                        THEN contents["notes"] ELSE <<>>
            /\ versions' = IF "versions" \in DOMAIN contents
                           THEN contents["versions"] ELSE <<>>
            /\ pc' = AfterSnapshot(0, Len(snapshots'), Len(notes'))
            /\ UNCHANGED <<processed_snapshots, raised, log>>
    /\ UNCHANGED <<file_state, contents, snap_pos, notes_index>>
    /\ UNCHANGED <<collectVars, filterVars, mapperVars, laterVars>>

\* one pass of "for snapshot in snapshots"
ProcessSnapshot ==
    /\ pc = "snapshots"
    /\ snap_pos < Len(snapshots)
    /\ LET snapshot == snapshots[snap_pos + 1]
           fields == MapRecord(FileSnapshotsMapping, snapshot)
       IN IF "file_types" \notin DOMAIN fields
          THEN \* data["fields"].pop("file_types")
               /\ raised' = "KeyError"
               /\ pc' = "raised"
               /\ UNCHANGED <<snap_pos, processed_snapshots>>
          ELSE IF FileTypesIndexError(fields["file_types"])
          THEN /\ raised' = "IndexError"
               /\ pc' = "raised"
               /\ UNCHANGED <<snap_pos, processed_snapshots>>
          ELSE \E order \in Orderings(DOMAIN fields["file_types"]) :
               /\ processed_snapshots' =
                      Append(processed_snapshots,
                             Entity("file", DropKey(fields, "file_types"),
                                    ProcessFileTypes(EmptyDict, fields["file_types"],
                                                     order)))
               /\ snap_pos' = snap_pos + 1
               /\ pc' = AfterSnapshot(snap_pos + 1, Len(snapshots), Len(notes))
               /\ UNCHANGED raised
    /\ UNCHANGED <<file_state, contents, snapshots, notes, versions, notes_index, log>>
    /\ UNCHANGED <<collectVars, filterVars, mapperVars, laterVars>>

\* ------------------------------------------------------------------------
\* _process_manifest_file: the note loop
\* ------------------------------------------------------------------------
\* data["fields"]["ingest_note_links"][note_link["type"]] = note_link, in list
\* order: a later link of the same type replaces an earlier one
RECURSIVE LinksByType(_, _)
LinksByType(links, acc) ==
    IF links = <<>> THEN acc
    ELSE LinksByType(Tail(links), (Head(links)["type"] :> Head(links)) @@ acc)

\* the note's own fields: its mapped keys and, if it has note_links, the
\* ingest_note_links dictionary
NoteOwnFields(note) ==
    LET mapped == MapRecord(NoteNotesMapping, note)
    IN IF "note_links" \in DOMAIN note
       THEN ("ingest_note_links" :> LinksByType(note["note_links"], EmptyDict))
            @@ mapped
       ELSE mapped

\* the range test with "and" in the place of "or"
NoCorrespondingRecordsBoth(index, nsnaps, nvers) ==
    index >= nsnaps /\ index >= nvers

\* if notes_index >= len(snapshots) or notes_index >= len(versions)
NoCorrespondingRecords(index, nsnaps, nvers) ==
    index >= nsnaps \/ index >= nvers

\* the fields of the version contribution: "notes" is popped from the version
\* record, then the keys are mapped
VersionFields(note_version) ==
    MapRecord(NoteVersionsMapping, DropKey(note_version, "notes"))

\* the fields of the snapshot contribution: the keys are mapped, then
\* "file_types" is popped if the snapshot record has it
SnapshotFields(note_snapshot) ==
    LET mapped == MapRecord(NoteSnapshotsMapping, note_snapshot)
    IN IF "file_types" \in DOMAIN note_snapshot
       THEN DropKey(mapped, "file_types") ELSE mapped

\* the merge with the two updates in the other order
MergeNoteFieldsVersionLast(note_fields, version_fields, snapshot_fields) ==
    version_fields @@ (snapshot_fields @@ note_fields)

\* data["fields"].update(version_data["fields"]), then
\* data["fields"].update(snapshot_data["fields"])
MergeNoteFields(note_fields, version_fields, snapshot_fields) ==
    snapshot_fields @@ (version_fields @@ note_fields)

\* [os.path.join(base_dir, attachment["path"]) for attachment in attachments]
AttachmentPaths(attachments) ==
    [j \in 1..Len(attachments) |-> JoinPath(base_dir, attachments[j]["path"])]

\* data["files"] of a note: the first attachment's path, with no tags
NoteFiles(attachments) ==
    IF attachments # <<>>
    THEN (JoinPath(base_dir, attachments[1]["path"]) :> <<>>)
    ELSE EmptyDict

\* one pass of "for note in notes"
ProcessNote ==
    /\ pc = "notes"
    /\ notes_index < Len(notes)
    /\ LET note == notes[notes_index + 1]
           outside == NoCorrespondingRecords(notes_index, Len(snapshots),
                                             Len(versions))
       IN IF ~outside /\ (notes_index + 1 > Len(snapshots)
                          \/ notes_index + 1 > Len(versions))
          THEN \* snapshots[notes_index] / versions[notes_index] out of range
               /\ raised' = "IndexError"
               /\ pc' = "raised"
               /\ UNCHANGED <<versions, notes_index, processed_snapshots>>
          ELSE
          LET note_snapshot == IF outside THEN EmptyDict
                               ELSE snapshots[notes_index + 1]
              note_version == IF outside THEN EmptyDict
                              ELSE versions[notes_index + 1]
              merged == MergeNoteFields(NoteOwnFields(note),
                                        VersionFields(note_version),
                                        SnapshotFields(note_snapshot))
          IN \* note_version.pop("notes") changes the record in the list
             /\ versions' = IF outside THEN versions
                            ELSE [versions EXCEPT ![notes_index + 1] =
                                      DropKey(@, "notes")]
             /\ IF "attachments" \notin DOMAIN merged
                THEN \* data["fields"].pop("attachments")
                     /\ raised' = "KeyError"
                     /\ pc' = "raised"
                     /\ UNCHANGED <<notes_index, processed_snapshots>>
                ELSE /\ processed_snapshots' =
                            Append(processed_snapshots,
                                   Entity("note",
                                          ("attachments" :>
                                               AttachmentPaths(merged["attachments"]))
                                          @@ merged,
                                          NoteFiles(merged["attachments"])))
                     /\ notes_index' = notes_index + 1
                     /\ pc' = IF notes_index + 1 < Len(notes)
                              THEN "notes" ELSE "parsed"
                     /\ UNCHANGED raised
    /\ UNCHANGED <<file_state, contents, snapshots, notes, snap_pos, log>>
    /\ UNCHANGED <<collectVars, filterVars, mapperVars, laterVars>>

\* ------------------------------------------------------------------------
\* Collector settings and the collaborators of the item loop
\* ------------------------------------------------------------------------
\* DEFAULT_NOTE_TYPES_MAPPINGS
NoteTypeMappings ==
    ("kickoff" :> "kickoff") @@ ("role supervisor" :> "annotation") @@
    ("dailies" :> "annotation")

\* DEFAULT_NOTE_TYPES_ACCESS_FALLBACKS (the same key paths for both types)
NoteTypeAccessFallbacks ==
    << <<"sg_version", "original_name">>, <<"sg_version", "name">>,
       <<"ingest_note_links", "Version", "original_name">>,
       <<"ingest_note_links", "Version", "name">> >>

\* settings["Ignore Extensions"] and the file names that match a pattern of
\* settings["Ignore Filename"]
IgnoreExtensions == {"tif"}
IgnoredFilenames == {"Thumbs.db"}

\* publisher.util.get_file_path_components for the files of the model
FileComponents ==
    ("a.mb" :> [filename |-> "a.mb", extension |-> "mb"]) @@
    ("f.1.exr" :> [filename |-> "f.1.exr", extension |-> "exr"]) @@
    ("f.2.exr" :> [filename |-> "f.2.exr", extension |-> "exr"]) @@
    ("tex.tif" :> [filename |-> "tex.tif", extension |-> "tif"]) @@
    ("seq" :> [filename |-> "seq", extension |-> ""]) @@
    ("Thumbs.db" :> [filename |-> "Thumbs.db", extension |-> "db"])

\* os.path.isdir on the delivered package
IsDir(p) == p = JoinPath(base_dir, Rel(<<"seq">>))

\* the fields the base collector resolves for a new item from its template
TemplateFields ==
    ("shot" :> Val("template", 0, "shot")) @@
    ("name" :> Val("template", 0, "name"))

NoItem == [kind |-> "none"]

\* item.description: not yet set, or set to a value
Undescribed == [set |-> FALSE]
Described(v) == [set |-> TRUE, value |-> v]

\* a new item as the base class builds it; creation_properties become
\* properties of the item
NewItem(kind, path, creation) ==
    [kind |-> kind,
     path |-> path,
     description |-> Undescribed,
     context_change_allowed |-> TRUE,
     properties |-> creation @@ ("fields" :> TemplateFields) @@
                    ("missing_fields" :> EmptyDict) @@
                    ("context_fields" :> EmptyDict)]

\* _add_file_item: no item and one warning for an ignored extension or file
\* name, else the base class's item with missing_fields and context_fields
AddFileItem(kind, path, components, creation) ==
    IF components.extension \in IgnoreExtensions
       \/ components.filename \in IgnoredFilenames
    THEN [item |-> NoItem,
          log |-> <<LogEntry("warning", "Ignoring the file")>>]
    ELSE [item |-> NewItem(kind, path, creation), log |-> <<>>]

\* reduce(operator.getitem, keys, fields): the nested value, if every key exists
RECURSIVE HasNested(_, _)
HasNested(d, keys) ==
    IF keys = <<>> THEN TRUE
    ELSE /\ Head(keys) \in DOMAIN d
         /\ HasNested(d[Head(keys)], Tail(keys))

RECURSIVE GetNested(_, _)
GetNested(d, keys) ==
    IF keys = <<>> THEN d ELSE GetNested(d[Head(keys)], Tail(keys))

\* the loop over the access fallbacks of _add_note_item, from fallback n on;
\* matches says whether a template of the note's item type parses the path
RECURSIVE NoteItemFrom(_, _, _, _)
NoteItemFrom(n, fields, note_type, matches) ==
    IF n > Len(NoteTypeAccessFallbacks)
    THEN [item |-> NoItem, log |-> <<>>]
    ELSE LET keys == NoteTypeAccessFallbacks[n]
             rest == NoteItemFrom(n + 1, fields, note_type, matches)
         IN IF ~HasNested(fields, keys)
            THEN [item |-> rest.item,
                  log |-> <<LogEntry("warning", "Unable to resolve a path using keys.")>>
                          \o rest.log]
            ELSE IF ~matches
            THEN [item |-> rest.item,
                  log |-> <<LogEntry("warning", "No matching template found")>>
                          \o rest.log]
            ELSE AddFileItem("note",
                             [name |-> GetNested(fields, keys), ext |-> note_type],
                             [filename |-> "note", extension |-> note_type],
                             EmptyDict)

\* _add_note_item
AddNoteItem(fields, matches) ==
    IF fields["note_type"] \notin DOMAIN NoteTypeMappings
    THEN [item |-> NoItem,
          log |-> <<LogEntry("error", "Note type not recognized")>>]
    ELSE NoteItemFrom(1, fields, NoteTypeMappings[fields["note_type"]], matches)

\* ------------------------------------------------------------------------
\* _query_associated_tags
\* ------------------------------------------------------------------------
TagEntity(id, name) == [type |-> "Tag", id |-> id, name |-> name]

\* find_one: a Tag entity with the name, if there is one
TagsNamed(db, name) == {n \in 1..Len(db) : db[n].name = name}

\* the loop with the find_one left out: every name is created
RECURSIVE QueryAssociatedTagsNoFind(_, _)
QueryAssociatedTagsNoFind(tags, acc) ==
    IF tags = <<>> \/ acc.raised # "none" THEN acc
    ELSE LET tag_name == Head(tags)
             new_entity == TagEntity(Len(acc.db) + 1, tag_name)
         IN QueryAssociatedTagsNoFind(Tail(tags),
              IF tag_name \in find_raise_tags
              THEN [acc EXCEPT !.raised = "ShotgunError"]
              ELSE IF tag_name \in create_fail_tags
              THEN [acc EXCEPT !.creates = Append(@, tag_name),
                               !.log =
                        Append(@, LogEntry("error", "Failed to create Tag"))]
              ELSE [acc EXCEPT !.entities = Append(@, new_entity),
                               !.creates = Append(@, tag_name),
                               !.db = Append(@, new_entity)])

\* the loop over the tag names: acc holds the entities found or created so
\* far, the names create was called for, the database and the log; a failing
\* find_one leaves the method
RECURSIVE QueryAssociatedTags(_, _)
QueryAssociatedTags(tags, acc) ==
    IF tags = <<>> \/ acc.raised # "none" THEN acc
    ELSE LET tag_name == Head(tags)
             found == TagsNamed(acc.db, tag_name)
         IN QueryAssociatedTags(Tail(tags),
              IF tag_name \in find_raise_tags
              THEN [acc EXCEPT !.raised = "ShotgunError"]
              ELSE IF found # {}
              THEN [acc EXCEPT !.entities =
                        Append(@, acc.db[CHOOSE n \in found : \A m \in found : n <= m])]
              ELSE IF tag_name \in create_fail_tags
              THEN [acc EXCEPT !.creates = Append(@, tag_name),
                               !.log =
                        Append(@, LogEntry("error", "Failed to create Tag"))]
              ELSE LET new_entity == TagEntity(Len(acc.db) + 1, tag_name)
                   IN [acc EXCEPT !.entities = Append(@, new_entity),
                                  !.creates = Append(@, tag_name),
                                  !.db = Append(@, new_entity)])

\* tag_entities = list() at the call, on the database as it stands
TagQueryStart(db) ==
    [entities |-> <<>>, creates |-> <<>>, db |-> db, raised |-> "none",
     log |-> <<>>]

\* ------------------------------------------------------------------------
\* _collect_manifest_file: the loop over the processed entities
\* ------------------------------------------------------------------------
\* the injection with the manifest fields applied under the item's own fields
InjectFieldsItemWins(item, fields) ==
    [item EXCEPT
        !.properties = ("manifest_file_fields" :> fields) @@
                       ("fields" :> (@["fields"] @@ fields)) @@ @,
        !.description = IF @.set THEN @ ELSE Described("Created by shotgun_ingest"),
        !.context_change_allowed = FALSE]

\* "for new_item in new_items": manifest_file_fields is set, the item's fields
\* are updated with the manifest fields, a default description is given and
\* context_change_allowed is cleared
InjectFields(item, fields) ==
    [item EXCEPT
        !.properties = ("manifest_file_fields" :> fields) @@
                       ("fields" :> (fields @@ @["fields"])) @@ @,
        !.description = IF @.set THEN @ ELSE Described("Created by shotgun_ingest"),
        !.context_change_allowed = FALSE]

\* item.description = fields["snapshot_name"] for a note item
DescribeNote(item, fields) ==
    IF item.kind # "none" /\ "snapshot_name" \in DOMAIN fields
    THEN [item EXCEPT !.description = Described(fields["snapshot_name"])]
    ELSE item

\* the new items of a group, each tagged with the group it came from
Grouped(items, e, key) ==
    [n \in 1..Len(items) |-> [item |-> items[n], entity |-> e, key |-> key]]

\* "if not files and hook_type == 'note'" and the (empty) loop over files for
\* an entity that lists no files
CollectEntityWithoutFiles ==
    /\ pc = "parsed"
    /\ entity_pos < Len(processed_snapshots)
    /\ LET e == processed_snapshots[entity_pos + 1]
       IN /\ e.files = EmptyDict
          /\ IF e.hook = "note"
             THEN \E matches \in BOOLEAN :
                  LET made == AddNoteItem(e.fields, matches)
                      item == DescribeNote(made.item, e.fields)
                      new_items == IF item.kind = "none" THEN <<>>
                                   ELSE <<InjectFields(item, e.fields)>>
                  IN /\ file_items' = file_items \o
                                      Grouped(new_items, entity_pos + 1, "none")
                     /\ log' = log \o made.log
             ELSE UNCHANGED <<file_items, log>>
    /\ entity_pos' = entity_pos + 1
    /\ UNCHANGED <<keys_done, sg_tags, create_fail_tags, find_raise_tags, raised, pc>>
    /\ UNCHANGED <<file_state, contents, snapshots, notes, versions, snap_pos,
                   notes_index, processed_snapshots>>
    /\ UNCHANGED <<filterVars, mapperVars, laterVars>>

\* one pass of "for p_file, tags in files.iteritems()"
CollectFileGroup ==
    /\ pc = "parsed"
    /\ entity_pos < Len(processed_snapshots)
    /\ LET e == processed_snapshots[entity_pos + 1]
       IN \E p_file \in (DOMAIN e.files) \ keys_done :
          LET last == keys_done \cup {p_file} = DOMAIN e.files
              advance == /\ keys_done' = IF last THEN {} ELSE keys_done \cup {p_file}
                         /\ entity_pos' = IF last THEN entity_pos + 1 ELSE entity_pos
          IN IF e.hook = "file"
             THEN LET q == QueryAssociatedTags(
                               e.files[p_file],
                               TagQueryStart(sg_tags))
                      fields == ("tags" :> q.entities) @@ e.fields
                      creation == ("manifest_file_fields" :> fields)
                      made == IF IsDir(p_file)
                              THEN \* _collect_folder
                                   [items |-> [n \in 1..FolderItemCount |->
                                                  NewItem("folder", p_file, creation)],
                                    log |-> <<>>]
                              ELSE \* _collect_file
                                   LET one == AddFileItem(
                                                  "file", p_file,
                                                  FileComponents[p_file.parts[Len(p_file.parts)]],
                                                  creation)
                                   IN [items |-> IF one.item.kind = "none" THEN <<>>
                                                 ELSE <<one.item>>,
                                       log |-> one.log]
                      new_items == [n \in 1..Len(made.items) |->
                                       InjectFields(made.items[n], fields)]
                  IN /\ sg_tags' = q.db
                     /\ IF q.raised # "none"
                        THEN /\ raised' = q.raised
                             /\ pc' = "raised"
                             /\ log' = log \o q.log
                             /\ UNCHANGED <<file_items, keys_done, entity_pos>>
                        ELSE /\ file_items' = file_items \o
                                              Grouped(new_items, entity_pos + 1, p_file)
                             /\ log' = log \o q.log \o made.log
                             /\ advance
                             /\ UNCHANGED <<raised, pc>>
             ELSE \E matches \in BOOLEAN :
                  LET fields == e.fields
                      made == AddNoteItem(fields, matches)
                      item == DescribeNote(made.item, fields)
                      new_items == IF item.kind = "none" THEN <<>>
                                   ELSE <<InjectFields(item, fields)>>
                  IN /\ file_items' = file_items \o
                                      Grouped(new_items, entity_pos + 1, p_file)
                     /\ log' = log \o made.log
                     /\ advance
                     /\ UNCHANGED <<sg_tags, raised, pc>>
    /\ UNCHANGED <<create_fail_tags, find_raise_tags>>
    /\ UNCHANGED <<file_state, contents, snapshots, notes, versions, snap_pos,
                   notes_index, processed_snapshots>>
    /\ UNCHANGED <<filterVars, mapperVars, laterVars>>

\* return file_items
ReturnFileItems ==
    /\ pc = "parsed"
    /\ entity_pos = Len(processed_snapshots)
    /\ pc' = "done"
    /\ UNCHANGED <<file_state, contents, snapshots, notes, versions, snap_pos,
                   notes_index, processed_snapshots, raised, log>>
    /\ UNCHANGED <<collectVars, filterVars, mapperVars, laterVars>>

\* ------------------------------------------------------------------------
\* _get_filtered_item_types_from_settings: manifest field filters
\* ------------------------------------------------------------------------
\* Python's None
None == "<None>"

\* character strings of the filter language are sequences of characters
IsDigit(c) == c \in {"0", "1", "2", "3", "4", "5", "6", "7", "8", "9"}

DigitValue(c) ==
    CASE c = "0" -> 0 [] c = "1" -> 1 [] c = "2" -> 2 [] c = "3" -> 3
      [] c = "4" -> 4 [] c = "5" -> 5 [] c = "6" -> 6 [] c = "7" -> 7
      [] c = "8" -> 8 [] c = "9" -> 9

\* int(text) succeeds on a non-empty string of digits
IntParses(text) ==
    /\ text # <<>>
    /\ \A n \in 1..Len(text) : IsDigit(text[n])

RECURSIVE IntOf(_, _)
IntOf(text, acc) ==
    IF text = <<>> THEN acc
    ELSE IntOf(Tail(text), 10 * acc + DigitValue(Head(text)))

\* text.startswith(prefix)
StartsWith(text, prefix) ==
    /\ Len(prefix) <= Len(text)
    /\ SubSeq(text, 1, Len(prefix)) = prefix

\* text.count(sub): the non-overlapping occurrences of sub in text
RECURSIVE CountOf(_, _)
CountOf(text, sub) ==
    IF sub = <<>> THEN Len(text) + 1
    ELSE IF Len(text) < Len(sub) THEN 0
    ELSE IF StartsWith(text, sub)
    THEN 1 + CountOf(SubSeq(text, Len(sub) + 1, Len(text)), sub)
    ELSE CountOf(Tail(text), sub)

BoolResult(b) == [type |-> "bool", bool |-> b]
IntResult(n) == [type |-> "int", int |-> n]

\* a parser value '%method:expected_value:expected_result%' (form "%"),
\* '#method:expected_value:expected_result#' (form "#") or a string that
\* matches neither pattern (form "none")
Parser(form, method, expected_value, expected_result) ==
    [form |-> form, method |-> method, expected_value |-> expected_value,
     expected_result |-> expected_result]

\* operator_method(field_value, expected_value) for a method of the operator
\* module
OperatorModuleResult(method, field_value, expected_value) ==
    CASE method = "eq" -> BoolResult(field_value = expected_value)
      [] method = "ne" -> BoolResult(field_value # expected_value)

\* operator_method(expected_value) for a method of the field value
FieldValueResult(method, field_value, expected_value) ==
    CASE method = "startswith" -> BoolResult(StartsWith(field_value, expected_value))
      [] method = "count" -> IntResult(CountOf(field_value, expected_value))

\* field_value_match before the comparison with expected_result
RawFilterResult(field_value, parser) ==
    CASE parser.form = "%" ->
             OperatorModuleResult(parser.method, field_value, parser.expected_value)
      [] parser.form = "#" ->
             FieldValueResult(parser.method, field_value, parser.expected_value)
      [] OTHER -> BoolResult(FALSE)

\* field_value_match with a bool result compared with bool(expected_result),
\* which is true of every non-empty string
FieldValueMatchCoercesBool(field_value, parser) ==
    LET result == RawFilterResult(field_value, parser)
    IN IF result.type = "bool"
       THEN result.bool = (parser.expected_result # <<>>)
       ELSE /\ IntParses(parser.expected_result)
            /\ result.int = IntOf(parser.expected_result, 0)

\* field_value_match: a result that is not a bool is compared with
\* expected_result converted to the result's type; a failed conversion is
\* no match
FieldValueMatch(field_value, parser) ==
    LET result == RawFilterResult(field_value, parser)
    IN IF result.type = "bool" THEN result.bool
       ELSE /\ IntParses(parser.expected_result)
            /\ result.int = IntOf(parser.expected_result, 0)

\* match_score: the filters whose field has a non-empty value in the
\* manifest fields and whose field_value_match is true
MatchScore(manifest_file_fields, manifest_field_filters) ==
    Cardinality({ field \in DOMAIN manifest_field_filters :
                      /\ field \in DOMAIN manifest_file_fields
                      /\ manifest_file_fields[field] # <<>>
                      /\ FieldValueMatch(manifest_file_fields[field],
                                         manifest_field_filters[field]) })

\* the characters of the strings used in the filter settings
S_model == <<"m", "o", "d", "e", "l">>
S_comp == <<"c", "o", "m", "p">>
S_co == <<"c", "o">>
S_aa == <<"a", "a">>
S_a == <<"a">>
S_2 == <<"2">>
S_True == <<"T", "r", "u", "e">>

\* type_info["manifest_field_filters"] of the configured item types
ManifestFieldFilters ==
    ("file.maya" :> EmptyDict) @@
    ("file.image" :> EmptyDict) @@
    ("file.model" :>
        (("department" :> Parser("%", "eq", S_model, S_True)))) @@
    ("file.plate" :>
        (("department" :> Parser("#", "startswith", S_co, S_True)) @@
         ("level" :> Parser("#", "count", S_a, S_2))))

ItemTypes == DOMAIN ManifestFieldFilters

\* the manifest fields the filters read
ManifestFieldsMenu ==
    { EmptyDict,
      ("department" :> S_model),
      ("department" :> S_comp) @@ ("level" :> S_aa),
      ("department" :> S_comp) @@ ("level" :> S_a),
      ("department" :> <<>>) @@ ("level" :> S_aa) }

\* the lists the base class can return: (resolution_order,
\* work_path_template, item_type) for distinct item types
BaseCandidateLists ==
    UNION { { l \in [1..len -> (1..MaxOrder) \X {None, "work_tmpl"} \X ItemTypes] :
                  \A a, b \in 1..len : l[a][3] = l[b][3] => a = b } :
            len \in 0..MaxCandidates }

\* the maximum of a non-empty list of numbers
MaxOf(numbers) ==
    CHOOSE m \in {numbers[n] : n \in 1..Len(numbers)} :
        \A n \in 1..Len(numbers) : numbers[n] <= m

\* the full-match discount taken from the highest order instead of the item's
AdjustedOrderFromMax(resolution_order, match_score, filter_count, max_order) ==
    IF match_score = filter_count
    THEN max_order - match_score
    ELSE resolution_order + max_order

\* the resolution order of a candidate with a template and filters
AdjustedOrder(resolution_order, match_score, filter_count, max_order) ==
    IF match_score = filter_count
    THEN resolution_order - match_score
    ELSE resolution_order + max_order

\* the tuple the manifest branch appends for a candidate
ManifestCandidate(candidate, manifest_file_fields, max_order) ==
    LET filters == ManifestFieldFilters[candidate[3]]
    IN IF candidate[2] # None /\ filters # EmptyDict
       THEN <<AdjustedOrder(candidate[1],
                            MatchScore(manifest_file_fields, filters),
                            Cardinality(DOMAIN filters), max_order),
              candidate[2], candidate[3]>>
       ELSE candidate

\* every candidate kept when there are no manifest fields
KeptWithoutManifestAlways(candidate) == TRUE

\* "if not type_info['manifest_field_filters']" of the branch without
\* manifest fields
KeptWithoutManifest(candidate) ==
    ManifestFieldFilters[candidate[3]] = EmptyDict

\* the sort key without the preference for a template
SortKeyOrderOnly(elem, max_order) == elem[1]

\* key=lambda elem: elem[0] if not elem[1] else elem[0]-max_resolution_order
SortKey(elem, max_order) ==
    IF elem[2] = None THEN elem[1] ELSE elem[1] - max_order

\* list.sort(key=...) is stable: x goes behind every element whose key is
\* not greater than its own
RECURSIVE InsertByKey(_, _, _)
InsertByKey(sorted, x, max_order) ==
    IF sorted = <<>> THEN <<x>>
    ELSE IF SortKey(Head(sorted), max_order) <= SortKey(x, max_order)
    THEN <<Head(sorted)>> \o InsertByKey(Tail(sorted), x, max_order)
    ELSE <<x>> \o sorted

RECURSIVE SortByKey(_, _, _)
SortByKey(list, acc, max_order) ==
    IF list = <<>> THEN acc
    ELSE SortByKey(Tail(list), InsertByKey(acc, Head(list), max_order), max_order)

\* the call of the base class and max(...) over its result
FilterBegin ==
    /\ f_pc = "call"
    /\ IF template_item_type_mapping = <<>>
       THEN \* max() of an empty list
            /\ f_raised' = "ValueError"
            /\ f_pc' = "raised"
            /\ UNCHANGED max_resolution_order
       ELSE /\ max_resolution_order' =
                   MaxOf([n \in 1..Len(template_item_type_mapping) |->
                             template_item_type_mapping[n][1]])
            /\ f_pc' = "loop"
            /\ UNCHANGED f_raised
    /\ UNCHANGED <<template_item_type_mapping, creation_properties,
                   filtered_mapping, f_pos>>
    /\ UNCHANGED <<manifestVars, collectVars, mapperVars, laterVars>>

\* one pass of the loop over template_item_type_mapping, in the branch the
\* creation properties select
FilterCandidate ==
    /\ f_pc = "loop"
    /\ f_pos < Len(template_item_type_mapping)
    /\ LET candidate == template_item_type_mapping[f_pos + 1]
       IN filtered_mapping' =
              IF "manifest_file_fields" \in DOMAIN creation_properties
              THEN Append(filtered_mapping,
                          ManifestCandidate(candidate,
                                            creation_properties["manifest_file_fields"],
                                            max_resolution_order))
              ELSE IF KeptWithoutManifest(candidate)
              THEN Append(filtered_mapping, candidate)
              ELSE filtered_mapping
    /\ f_pos' = f_pos + 1
    /\ UNCHANGED <<f_pc, template_item_type_mapping, creation_properties,
                   max_resolution_order, f_raised>>
    /\ UNCHANGED <<manifestVars, collectVars, mapperVars, laterVars>>

\* filtered_template_item_type_mapping.sort(...) and the return
FilterSort ==
    /\ f_pc = "loop"
    /\ f_pos = Len(template_item_type_mapping)
    /\ filtered_mapping' = SortByKey(filtered_mapping, <<>>, max_resolution_order)
    /\ f_pc' = "done"
    /\ UNCHANGED <<template_item_type_mapping, creation_properties,
                   max_resolution_order, f_pos, f_raised>>
    /\ UNCHANGED <<manifestVars, collectVars, mapperVars, laterVars>>

\* ------------------------------------------------------------------------
\* Field Mapper: a manifest key mapped forward through a table of
\* DEFAULT_MANIFEST_SG_MAPPINGS and back through the inverse table
\* ------------------------------------------------------------------------
MappingTables ==
    {FileSnapshotsMapping, NoteNotesMapping, NoteSnapshotsMapping,
     NoteVersionsMapping}

TargetNames(table) == {table[k] : k \in DOMAIN table}

\* the keys a manifest record may carry: the keys of the tables, the names
\* the tables map to, and keys no table mentions
ManifestKeys ==
    UNION {DOMAIN table : table \in MappingTables}
    \cup UNION {TargetNames(table) : table \in MappingTables}
    \cup {"shot", "description", "note_type", "attachments", "file_types"}

\* the inverse table constructed from a mapping: target name -> manifest key
InverseTable(table) ==
    [t \in TargetNames(table) |-> CHOOSE k \in DOMAIN table : table[k] = t]

MapForward ==
    /\ m_pc = "key"
    /\ m_mapped' = MapKey(m_table, m_key)
    /\ m_pc' = "mapped"
    /\ UNCHANGED <<m_table, m_key, m_back>>
    /\ UNCHANGED <<manifestVars, collectVars, filterVars, laterVars>>

MapBack ==
    /\ m_pc = "mapped"
    /\ m_back' = MapKey(InverseTable(m_table), m_mapped)
    /\ m_pc' = "back"
    /\ UNCHANGED <<m_table, m_key, m_mapped>>
    /\ UNCHANGED <<manifestVars, collectVars, filterVars, laterVars>>

\* ------------------------------------------------------------------------
\* _add_file_item: the Ignore Extensions and Ignore Filename settings
\* ------------------------------------------------------------------------
\* the file names of the model as the characters re.match reads
FilenameChars ==
    ("a.mb" :> <<"a", ".", "m", "b">>) @@
    ("f.1.exr" :> <<"f", ".", "1", ".", "e", "x", "r">>) @@
    ("f.2.exr" :> <<"f", ".", "2", ".", "e", "x", "r">>) @@
    ("tex.tif" :> <<"t", "e", "x", ".", "t", "i", "f">>) @@
    ("seq" :> <<"s", "e", "q">>) @@
    ("Thumbs.db" :> <<"T", "h", "u", "m", "b", "s", ".", "d", "b">>)

\* the patterns of the model, one token per character: "." stands for any
\* character, "\\." for a dot, any other token for itself
ThumbsPattern == <<"T", "h", "u", "m", "b", "s">>
DotMbPattern == <<".", "\\.", "m", "b">>
ExrPattern == <<"e", "x", "r">>

\* one token of a pattern against one character
TokenMatches(token, char) ==
    \/ token = "."
    \/ token = "\\." /\ char = "."
    \/ token \notin {".", "\\."} /\ token = char

\* re.match(pattern, text): the pattern matches at the start of the text
ReMatch(pattern, text) ==
    /\ Len(pattern) <= Len(text)
    /\ \A n \in 1..Len(pattern) : TokenMatches(pattern[n], text[n])

\* the values of the two settings; both lists are empty by default
IgnoreSettings ==
    [extensions : {<<>>, <<"tif">>},
     filenames : {<<>>, <<ThumbsPattern>>, <<ExrPattern, DotMbPattern>>}]

\* the paths _add_file_item is called with and, for a sequence, its files
AddPaths == DOMAIN FileComponents
SeqFiles(path) ==
    IF path \in {"f.1.exr", "f.2.exr"} THEN <<"f.1.exr", "f.2.exr">>
    ELSE <<path>>

\* file_components["extension"] in ignored_extensions
ExtensionIgnored(settings, path) ==
    \E n \in 1..Len(settings.extensions) :
        settings.extensions[n] = FileComponents[path].extension

\* any(re.match(ignored_string, file_components["filename"]) ...)
FilenameIgnored(settings, path) ==
    \E n \in 1..Len(settings.filenames) :
        ReMatch(settings.filenames[n],
                FilenameChars[FileComponents[path].filename])

\* _add_file_item that lets a sequence through to the base class
AddFileItemToParentSingleOnly(settings, children, path, is_sequence) ==
    IF /\ ~is_sequence
       /\ settings.extensions # <<>> \/ settings.filenames # <<>>
       /\ ExtensionIgnored(settings, path) \/ FilenameIgnored(settings, path)
    THEN [item |-> NoItem,
          children |-> children,
          log |-> <<[level |-> "warning",
                     msg |-> "Ignoring the file",
                     text |-> <<path>>]>>]
    ELSE LET item == NewItem(IF is_sequence THEN "sequence" ELSE "file",
                             path, EmptyDict)
         IN [item |-> item, children |-> Append(children, item),
             log |-> <<>>]

\* _add_file_item: with one of the two settings given, a path whose
\* extension is listed or whose file name matches a pattern is logged as
\* ignored (the files of the sequence, or the path) and no item is made;
\* else the base class makes the item and adds it to the parent
AddFileItemToParent(settings, children, path, is_sequence) ==
    IF /\ settings.extensions # <<>> \/ settings.filenames # <<>>
       /\ ExtensionIgnored(settings, path) \/ FilenameIgnored(settings, path)
    THEN [item |-> NoItem,
          children |-> children,
          log |-> <<[level |-> "warning",
                     msg |-> "Ignoring the file",
                     text |-> IF is_sequence THEN SeqFiles(path)
                              ELSE <<path>>]>>]
    ELSE LET item == NewItem(IF is_sequence THEN "sequence" ELSE "file",
                             path, EmptyDict)
         IN [item |-> item, children |-> Append(children, item),
             log |-> <<>>]

\* one call of _add_file_item on the parent item
AddFileItemCall ==
    /\ a_settings # EmptyDict
    /\ Len(a_calls) < MaxAddCalls
    /\ \E path \in AddPaths, is_sequence \in BOOLEAN :
         LET r == AddFileItemToParent(a_settings, a_children, path, is_sequence)
         IN /\ a_children' = r.children
            /\ a_log' = a_log \o r.log
            /\ a_calls' = Append(a_calls,
                                 [path |-> path,
                                  is_sequence |-> is_sequence,
                                  item |-> r.item,
                                  children_before |-> a_children,
                                  log_before |-> a_log])
    /\ UNCHANGED a_settings
    /\ UNCHANGED <<manifestVars, collectVars, filterVars, mapperVars,
                   resolveVars, tagVars, publishVars, contextVars, moreVars>>
\* ------------------------------------------------------------------------
\* _get_item_context_from_path: the vendor step and task of an ingested file
\* ------------------------------------------------------------------------
\* the context entity, the step a path can carry and the vendor step and
\* task of the tracking database
ContextEntityTypes == {"Shot", "Sequence", "Asset"}
ContextEntity(type) == [type |-> type, id |-> 10]
PathStep == [type |-> "Step", id |-> 20, name |-> "comp"]
VendorStep(entity_type) ==
    [type |-> "Step", id |-> 21, code |-> "vendor", entity_type |-> entity_type]
TaskEntity(id, content) == [type |-> "Task", id |-> id, content |-> content]
NoEntity == [type |-> "None"]

\* what one call meets: the entity and step the path resolves to, whether
\* the database holds the vendor step and the task, and how the create and
\* update calls answer
ContextWorlds ==
    [entity : ContextEntityTypes \cup {"None"},
     path_step : BOOLEAN,
     vendor_step : BOOLEAN,
     task : BOOLEAN,
     create : {"ok", "none", "raise"},
     update : {"ok", "raise"}]

\* the base class's resolver: the context of the path, with the default
\* entities standing in for the step and task the path does not give
BaseContextFromPath(world, default_entities) ==
    LET steps == {n \in 1..Len(default_entities) :
                      default_entities[n].type = "Step"}
        tasks == {n \in 1..Len(default_entities) :
                      default_entities[n].type = "Task"}
    IN [project |-> "project",
        entity |-> IF world.entity = "None" THEN NoEntity
                   ELSE ContextEntity(world.entity),
        step |-> IF world.path_step THEN PathStep
                 ELSE IF steps # {}
                 THEN default_entities[CHOOSE n \in steps : TRUE]
                 ELSE NoEntity,
        task |-> IF tasks # {}
                 THEN default_entities[CHOOSE n \in tasks : TRUE]
                 ELSE NoEntity]

\* step_entity["name"] if step_entity.get("name") else step_entity["code"]
StepContent(step_entity) ==
    IF "name" \in DOMAIN step_entity THEN step_entity.name
    ELSE step_entity.code

\* the resolver with the status set only for a task it has just created
GetItemContextFromPathUpdatesNewOnly(world) ==
    LET context == BaseContextFromPath(world, <<>>)
        step_entity ==
            IF context.step # NoEntity THEN context.step
            ELSE IF world.vendor_step THEN VendorStep(world.entity)
            ELSE NoEntity
        step_calls == IF context.step # NoEntity THEN <<>>
                      ELSE <<"find_one Step">>
        content == StepContent(step_entity)
        found == IF world.task THEN TaskEntity(30, content) ELSE NoEntity
        created == IF world.create = "ok" THEN TaskEntity(31, content)
                   ELSE NoEntity
        task_entity == IF found # NoEntity THEN found ELSE created
        task_calls ==
            <<"find_one Task">>
            \o (IF found = NoEntity THEN <<"create Task">> ELSE <<>>)
            \o (IF task_entity = NoEntity \/ found # NoEntity THEN <<>>
                ELSE IF world.update = "ok" THEN <<"update Task">>
                ELSE <<"update Task raised">>)
        entities == <<step_entity>>
                    \o (IF task_entity # NoEntity THEN <<task_entity>>
                        ELSE <<>>)
    IN IF context.entity = NoEntity
       THEN [raised |-> "none", context |-> context, log |-> <<>>,
             calls |-> <<>>]
       ELSE IF step_entity = NoEntity
       THEN [raised |-> "none", context |-> context, log |-> <<>>,
             calls |-> step_calls]
       ELSE IF found = NoEntity /\ world.create = "raise"
       THEN [raised |-> "create Task", context |-> NoEntity, log |-> <<>>,
             calls |-> step_calls \o <<"find_one Task", "create Task">>]
       ELSE [raised |-> "none",
             context |-> BaseContextFromPath(world, entities),
             log |-> IF found = NoEntity /\ created = NoEntity
                     THEN <<LogEntry("error", "Failed to create Ingestion Task.")>>
                     ELSE <<>>,
             calls |-> step_calls \o task_calls]

\* _get_item_context_from_path: the context of the path; with an entity
\* and a step (the path's or the "vendor" step of the database) the task of
\* that step is found or created, its status set to "na", and the context
\* resolved again with step and task as default entities
GetItemContextFromPath(world) ==
    LET context == BaseContextFromPath(world, <<>>)
        step_entity ==
            IF context.step # NoEntity THEN context.step
            ELSE IF world.vendor_step THEN VendorStep(world.entity)
            ELSE NoEntity
        step_calls == IF context.step # NoEntity THEN <<>>
                      ELSE <<"find_one Step">>
        content == StepContent(step_entity)
        found == IF world.task THEN TaskEntity(30, content) ELSE NoEntity
        created == IF world.create = "ok" THEN TaskEntity(31, content)
                   ELSE NoEntity
        task_entity == IF found # NoEntity THEN found ELSE created
        task_calls ==
            <<"find_one Task">>
            \o (IF found = NoEntity THEN <<"create Task">> ELSE <<>>)
            \o (IF task_entity = NoEntity THEN <<>>
                ELSE IF world.update = "ok" THEN <<"update Task">>
                ELSE <<"update Task raised">>)
        entities == <<step_entity>>
                    \o (IF task_entity # NoEntity THEN <<task_entity>>
                        ELSE <<>>)
    IN IF context.entity = NoEntity
       THEN [raised |-> "none", context |-> context, log |-> <<>>,
             calls |-> <<>>]
       ELSE IF step_entity = NoEntity
       THEN [raised |-> "none", context |-> context, log |-> <<>>,
             calls |-> step_calls]
       ELSE IF found = NoEntity /\ world.create = "raise"
       THEN [raised |-> "create Task", context |-> NoEntity, log |-> <<>>,
             calls |-> step_calls \o <<"find_one Task", "create Task">>]
       ELSE [raised |-> "none",
             context |-> BaseContextFromPath(world, entities),
             log |-> IF found = NoEntity /\ created = NoEntity
                     THEN <<LogEntry("error", "Failed to create Ingestion Task.")>>
                     ELSE <<>>,
             calls |-> step_calls \o task_calls]

\* one call of the resolver
GetItemContextFromPathCall ==
    /\ c_pc = "start"
    /\ LET r == GetItemContextFromPath(c_world)
       IN /\ c_pc' = IF r.raised = "none" THEN "done" ELSE "raised"
          /\ c_context' = r.context
          /\ c_log' = r.log
          /\ c_calls' = r.calls
    /\ UNCHANGED c_world
    /\ UNCHANGED <<manifestVars, collectVars, filterVars, mapperVars,
                   resolveVars, tagVars, publishVars, addVars, moreVars>>
\* ------------------------------------------------------------------------
\* ingest_files.py: the container (linked) entity of a published item
\* ------------------------------------------------------------------------
UNLINKED_ENTITY_TYPE == "(UNLINKED)"

\* task_settings['snapshot_type_settings']: the default and a configuration
\* that enables the custom entities
SnapshotTypeSettings ==
    { ("*" :> UNLINKED_ENTITY_TYPE),
      ("work_plate" :> "Element") @@ ("*" :> "Asset") }

\* _resolve_linked_entity_type
ResolveLinkedEntityType(item) ==
    IF item.snapshot_type \in DOMAIN item.snapshot_settings
    THEN item.snapshot_settings[item.snapshot_type]
    ELSE item.snapshot_settings["*"]

\* the items publish is run on: the context entity is None or the Shot, the
\* Sequence or the Asset of the project; a Shot context carries its Sequence
\* and an Asset context a Shot as additional entities
PublishItems ==
    { [code |-> "publish_linked_entity_name",
       context_entity |-> ctx,
       additional_entities |->
           IF ctx = "Shot" THEN ("Sequence" :> "Sequence")
           ELSE IF ctx = "Asset" THEN ("Shot" :> "Shot")
           ELSE EmptyDict,
       snapshot_type |-> st,
       snapshot_settings |-> settings] :
          ctx \in {None, "Shot", "Sequence", "Asset"},
          st \in {"work_plate", "maya_model"},
          settings \in SnapshotTypeSettings }

\* the filters of _find_linked_entity applied to one entity of the database
MatchesLinkedEntity(e, item) ==
    LET linked_entity_type == ResolveLinkedEntityType(item)
        ctx == item.context_entity
    IN /\ e.type = linked_entity_type
       /\ e.code = item.code
       /\ ctx = "Shot" => e.sg_shot = ctx
       /\ ctx = "Sequence" => e.sg_sequence = ctx
       /\ (ctx = "Asset" /\ linked_entity_type = "Asset") => ctx \in e.parents
       /\ (ctx = "Asset" /\ linked_entity_type = "Element") => ctx \in e.assets
       /\ linked_entity_type = "Asset" => e.sg_asset_type = item.snapshot_type

\* find_one: the matching entity of lowest id, as a set of at most one
FindLinkedEntity(item, db) ==
    LET matching == {e \in db : MatchesLinkedEntity(e, item)}
    IN {e \in matching : \A f \in matching : e.id <= f.id}

\* the dict "data" of _create_linked_entity without sg_status_list
LinkedEntityDataNoStatus(item) ==
    LET linked_entity_type == ResolveLinkedEntityType(item)
        ctx == item.context_entity
        add == item.additional_entities
        own == ("code" :> item.code) @@
               (IF linked_entity_type = "Asset"
                THEN ("sg_asset_type" :> item.snapshot_type) ELSE EmptyDict)
        linked ==
            IF ctx = "Shot"
            THEN ("sg_shot" :> ctx) @@
                 (IF "Sequence" \in DOMAIN add
                  THEN ("sg_sequence" :> add["Sequence"]) ELSE EmptyDict)
            ELSE IF ctx = "Sequence" THEN ("sg_sequence" :> ctx)
            ELSE IF ctx = "Asset" /\ linked_entity_type = "Asset"
            THEN ("parents" :> {ctx}) @@
                 (IF "Sequence" \in DOMAIN add
                  THEN ("sg_sequence" :> add["Sequence"]) ELSE EmptyDict) @@
                 (IF "Shot" \in DOMAIN add
                  THEN ("sg_shot" :> add["Shot"]) ELSE EmptyDict)
            ELSE EmptyDict
    IN linked @@ own

\* the dict "data" of _create_linked_entity; "elements" is never set because
\* the branch of line 540 is entered for a linked Asset only
LinkedEntityData(item) ==
    LET linked_entity_type == ResolveLinkedEntityType(item)
        ctx == item.context_entity
        add == item.additional_entities
        own == ("code" :> item.code) @@ ("sg_status_list" :> "ip") @@
               (IF linked_entity_type = "Asset"
                THEN ("sg_asset_type" :> item.snapshot_type) ELSE EmptyDict)
        linked ==
            IF ctx = "Shot"
            THEN ("sg_shot" :> ctx) @@
                 (IF "Sequence" \in DOMAIN add
                  THEN ("sg_sequence" :> add["Sequence"]) ELSE EmptyDict)
            ELSE IF ctx = "Sequence" THEN ("sg_sequence" :> ctx)
            ELSE IF ctx = "Asset" /\ linked_entity_type = "Asset"
            THEN ("parents" :> {ctx}) @@
                 (IF "Sequence" \in DOMAIN add
                  THEN ("sg_sequence" :> add["Sequence"]) ELSE EmptyDict) @@
                 (IF "Shot" \in DOMAIN add
                  THEN ("sg_shot" :> add["Shot"]) ELSE EmptyDict)
            ELSE EmptyDict
    IN linked @@ own

\* an entity of the given type with no field set
BlankEntity(id, type) ==
    [id |-> id, type |-> type, code |-> None, sg_status_list |-> None,
     sg_asset_type |-> None, sg_shot |-> None, sg_sequence |-> None,
     parents |-> {}, assets |-> {}, sg_published_files |-> {}]

\* shotgun.create / shotgun.update with data; parents is updated in mode 'add'
WithData(e, data) ==
    [k \in DOMAIN e |->
        IF k \notin DOMAIN data THEN e[k]
        ELSE IF k = "parents" THEN e[k] \cup data[k]
        ELSE data[k]]

\* a call made to the tracking database, with the published files the entity
\* it addresses has at that moment
SgCall(op, id, ok, files) == [op |-> op, id |-> id, ok |-> ok, files |-> files]

EntityRef(e) == [type |-> e.type, id |-> e.id]

\* _create_linked_entity with the exceptions swallowed: a failing lookup or
\* write returns None
CreateLinkedEntitySwallows(item, db, next_id, find_ok, write_ok) ==
    LET found == FindLinkedEntity(item, db)
        data == LinkedEntityData(item)
        linked_entity_type == ResolveLinkedEntityType(item)
    IN IF linked_entity_type = UNLINKED_ENTITY_TYPE
       THEN [raised |-> FALSE, entity |-> {}, db |-> db, calls |-> <<>>]
       ELSE IF ~find_ok
       THEN [raised |-> FALSE, entity |-> {}, db |-> db,
             calls |-> <<SgCall("find", 0, FALSE, {})>>]
       ELSE IF ~write_ok
       THEN [raised |-> FALSE, entity |-> {}, db |-> db,
             calls |-> <<SgCall("find", 0, TRUE, {}),
                         SgCall(IF found = {} THEN "create" ELSE "update",
                                0, FALSE, {})>>]
       ELSE IF found # {}
       THEN LET e == CHOOSE f \in found : TRUE
            IN [raised |-> FALSE, entity |-> {EntityRef(e)},
                db |-> (db \ {e}) \cup {WithData(e, data)},
                calls |-> <<SgCall("find", e.id, TRUE, e.sg_published_files),
                            SgCall("update", e.id, TRUE, e.sg_published_files)>>]
       ELSE LET e == WithData(BlankEntity(next_id, linked_entity_type), data)
            IN [raised |-> FALSE, entity |-> {EntityRef(e)},
                db |-> db \cup {e},
                calls |-> <<SgCall("find", 0, TRUE, {}),
                            SgCall("create", e.id, TRUE, {})>>]

\* _create_linked_entity: None for an unlinked item; the lookup and the
\* create/update re-raise what they catch; else the entity found is updated
\* or a new one is created
CreateLinkedEntity(item, db, next_id, find_ok, write_ok) ==
    LET found == FindLinkedEntity(item, db)
        data == LinkedEntityData(item)
        linked_entity_type == ResolveLinkedEntityType(item)
    IN IF linked_entity_type = UNLINKED_ENTITY_TYPE
       THEN [raised |-> FALSE, entity |-> {}, db |-> db, calls |-> <<>>]
       ELSE IF ~find_ok
       THEN [raised |-> TRUE, entity |-> {}, db |-> db,
             calls |-> <<SgCall("find", 0, FALSE, {})>>]
       ELSE IF ~write_ok
       THEN [raised |-> TRUE, entity |-> {}, db |-> db,
             calls |-> <<SgCall("find", 0, TRUE, {}),
                         SgCall(IF found = {} THEN "create" ELSE "update",
                                0, FALSE, {})>>]
       ELSE IF found # {}
       THEN LET e == CHOOSE f \in found : TRUE
            IN [raised |-> FALSE, entity |-> {EntityRef(e)},
                db |-> (db \ {e}) \cup {WithData(e, data)},
                calls |-> <<SgCall("find", e.id, TRUE, e.sg_published_files),
                            SgCall("update", e.id, TRUE, e.sg_published_files)>>]
       ELSE LET e == WithData(BlankEntity(next_id, linked_entity_type), data)
            IN [raised |-> FALSE, entity |-> {EntityRef(e)},
                db |-> db \cup {e},
                calls |-> <<SgCall("find", 0, TRUE, {}),
                            SgCall("create", e.id, TRUE, {})>>]

\* undo without the look at sg_published_files: the entity of
\* ingest_entity_data is deleted whenever the query finds an entity
UndoLinkedEntityAlways(props, item, db, find_ok, delete_ok) ==
    IF "ingest_entity_data" \notin DOMAIN props
    THEN [raised |-> FALSE, props |-> props, db |-> db, calls |-> <<>>]
    ELSE LET linked_entity_data == props["ingest_entity_data"]
             found == IF ResolveLinkedEntityType(item) = UNLINKED_ENTITY_TYPE
                      THEN {} ELSE FindLinkedEntity(item, db)
             target == {e \in db : e.id = linked_entity_data.id}
             files == UNION {e.sg_published_files : e \in target}
         IN IF ~find_ok
            THEN [raised |-> TRUE, props |-> props, db |-> db,
                  calls |-> <<SgCall("find", 0, FALSE, {})>>]
            ELSE IF found # {}
            THEN [raised |-> FALSE,
                  props |-> IF delete_ok THEN DropKey(props, "ingest_entity_data")
                            ELSE props,
                  db |-> IF delete_ok THEN db \ target ELSE db,
                  calls |-> <<SgCall("find", 0, TRUE, {}),
                              SgCall("delete", linked_entity_data.id, delete_ok, files)>>]
            ELSE [raised |-> FALSE, props |-> props, db |-> db,
                  calls |-> <<SgCall("find", 0, TRUE, {})>>]

\* undo: with ingest_entity_data on the item the entity is queried afresh
\* (the query is not guarded); if it is found with no published files, the
\* entity of ingest_entity_data is deleted and, the delete having succeeded,
\* ingest_entity_data is popped; a failing delete is logged
UndoLinkedEntity(props, item, db, find_ok, delete_ok) ==
    IF "ingest_entity_data" \notin DOMAIN props
    THEN [raised |-> FALSE, props |-> props, db |-> db, calls |-> <<>>]
    ELSE LET linked_entity_data == props["ingest_entity_data"]
             found == IF ResolveLinkedEntityType(item) = UNLINKED_ENTITY_TYPE
                      THEN {} ELSE FindLinkedEntity(item, db)
             target == {e \in db : e.id = linked_entity_data.id}
             files == UNION {e.sg_published_files : e \in target}
         IN IF ~find_ok
            THEN [raised |-> TRUE, props |-> props, db |-> db,
                  calls |-> <<SgCall("find", 0, FALSE, {})>>]
            ELSE IF found # {} /\ \A e \in found : e.sg_published_files = {}
            THEN [raised |-> FALSE,
                  props |-> IF delete_ok THEN DropKey(props, "ingest_entity_data")
                            ELSE props,
                  db |-> IF delete_ok THEN db \ target ELSE db,
                  calls |-> <<SgCall("find", 0, TRUE, {}),
                              SgCall("delete", linked_entity_data.id, delete_ok, files)>>]
            ELSE [raised |-> FALSE, props |-> props, db |-> db,
                  calls |-> <<SgCall("find", 0, TRUE, {})>>]

\* publish, lines 204-211 and the branch taken: the container entity is
\* created or updated first
PublishCreateLinkedEntity ==
    /\ p_pc = "start"
    /\ \E find_ok, write_ok \in BOOLEAN :
          LET r == CreateLinkedEntity(p_item, sg_entities, sg_next_id,
                                      find_ok, write_ok)
              props == IF r.entity # {}
                       THEN ("ingest_entity_data" :> CHOOSE e \in r.entity : TRUE)
                            @@ p_props
                       ELSE p_props
          IN /\ sg_entities' = r.db
             /\ sg_next_id' = IF Cardinality(r.db) > Cardinality(sg_entities)
                              THEN sg_next_id + 1 ELSE sg_next_id
             /\ p_calls' = p_calls \o r.calls
             /\ IF r.raised
                THEN /\ p_pc' = "raised"
                     /\ p_raised' = "create_linked_entity"
                     /\ UNCHANGED p_props
                ELSE /\ p_props' = props
                     /\ p_pc' = IF "ingest_entity_data" \in DOMAIN props
                                   \/ ResolveLinkedEntityType(p_item) = UNLINKED_ENTITY_TYPE
                                THEN "files" ELSE "done"
                     /\ UNCHANGED p_raised
    /\ UNCHANGED <<p_item, sg_published, l_runs>>
    /\ UNCHANGED <<manifestVars, collectVars, filterVars, mapperVars,
                   resolveVars, tagVars, contextVars, addVars, moreVars>>

\* create_published_files: the base class publishes; the PublishedFile is
\* created and listed in sg_publish_data_list, or it is not, or the base
\* class raises
PublishCreateFiles ==
    /\ p_pc = "files"
    /\ \E outcome \in {"created", "none", "raise"} :
          /\ p_calls' = Append(p_calls, SgCall("publish", 0, outcome = "created", {}))
          /\ sg_published' = IF outcome = "created"
                             THEN sg_published \cup {"new"} ELSE sg_published
          /\ p_props' = IF outcome = "created"
                        THEN ("sg_publish_data_list" :> {"new"}) @@ p_props
                        ELSE p_props
          /\ p_raised' = IF outcome = "raise" THEN "publish" ELSE p_raised
          /\ p_pc' = IF outcome = "raise" THEN "raised"
                     ELSE IF outcome = "none" THEN "undo"
                     ELSE IF "ingest_entity_data" \in DOMAIN p_props THEN "link"
                     ELSE "done"
    /\ UNCHANGED <<p_item, sg_entities, sg_next_id, l_runs>>
    /\ UNCHANGED <<manifestVars, collectVars, filterVars, mapperVars,
                   resolveVars, tagVars, contextVars, addVars, moreVars>>

\* _link_published_files_to_entity and, when it returned the entity,
\* _clear_linked_entity_status_list
PublishLink ==
    /\ p_pc = "link"
    /\ \E link_ok, clear_ok \in BOOLEAN :
          LET id == p_props["ingest_entity_data"].id
              pfs == p_props["sg_publish_data_list"]
          IN IF link_ok
             THEN /\ sg_entities' =
                        { IF e.id # id THEN e
                          ELSE [e EXCEPT !.sg_published_files = @ \cup pfs,
                                         !.sg_status_list =
                                             IF clear_ok THEN None ELSE @] :
                          e \in sg_entities }
                  /\ p_calls' = p_calls \o <<SgCall("link", id, TRUE, pfs),
                                             SgCall("clear", id, clear_ok, pfs)>>
                  /\ p_pc' = "done"
             ELSE /\ p_calls' = Append(p_calls, SgCall("link", id, FALSE, {}))
                  /\ p_pc' = "undo_link"
                  /\ UNCHANGED sg_entities
    /\ UNCHANGED <<p_item, p_props, p_raised, sg_published, sg_next_id, l_runs>>
    /\ UNCHANGED <<manifestVars, collectVars, filterVars, mapperVars,
                   resolveVars, tagVars, contextVars, addVars, moreVars>>

\* self.undo inside publish; after a failed link the parent's undo follows
\* and removes the PublishedFiles
PublishUndo ==
    /\ p_pc \in {"undo", "undo_link"}
    /\ \E find_ok, delete_ok \in BOOLEAN :
          LET u == UndoLinkedEntity(p_props, p_item, sg_entities, find_ok, delete_ok)
          IN /\ sg_entities' = u.db
             /\ p_props' = u.props
             /\ p_calls' = p_calls \o u.calls
             /\ p_raised' = IF u.raised THEN "undo" ELSE p_raised
             /\ p_pc' = IF u.raised THEN "raised" ELSE "done"
             /\ sg_published' = IF ~u.raised /\ p_pc = "undo_link"
                                THEN sg_published \ p_props["sg_publish_data_list"]
                                ELSE sg_published
    /\ UNCHANGED <<p_item, sg_next_id, l_runs>>
    /\ UNCHANGED <<manifestVars, collectVars, filterVars, mapperVars,
                   resolveVars, tagVars, contextVars, addVars, moreVars>>

\* undo called by the host once publish has returned
HostUndo ==
    /\ p_pc = "done"
    /\ \E find_ok, delete_ok \in BOOLEAN :
          LET u == UndoLinkedEntity(p_props, p_item, sg_entities, find_ok, delete_ok)
          IN /\ sg_entities' = u.db
             /\ p_props' = u.props
             /\ p_calls' = p_calls \o u.calls
             /\ p_raised' = IF u.raised THEN "undo" ELSE p_raised
             /\ p_pc' = IF u.raised THEN "raised" ELSE "undone"
    /\ UNCHANGED <<p_item, sg_published, sg_next_id, l_runs>>
    /\ UNCHANGED <<manifestVars, collectVars, filterVars, mapperVars,
                   resolveVars, tagVars, contextVars, addVars, moreVars>>

\* _create_linked_entity run on its own, once more for the same item
CreateLinkedEntityRun ==
    /\ p_pc = "linked"
    /\ l_runs < MaxLinkedRuns
    /\ \E find_ok, write_ok \in BOOLEAN :
          LET r == CreateLinkedEntity(p_item, sg_entities, sg_next_id,
                                      find_ok, write_ok)
          IN /\ sg_entities' = r.db
             /\ sg_next_id' = IF Cardinality(r.db) > Cardinality(sg_entities)
                              THEN sg_next_id + 1 ELSE sg_next_id
             /\ p_calls' = p_calls \o r.calls
    /\ l_runs' = l_runs + 1
    /\ UNCHANGED <<p_pc, p_item, p_props, p_raised, sg_published>>
    /\ UNCHANGED <<manifestVars, collectVars, filterVars, mapperVars,
                   resolveVars, tagVars, contextVars, addVars, moreVars>>

\* ------------------------------------------------------------------------
\* _resolve_item_fields
\* ------------------------------------------------------------------------
DEFAULT_SNAPSHOT_TYPE == Val("DEFAULT_SNAPSHOT_TYPE", 0, "snapshot_type")

\* a default field configured as "%attr%" and one configured as a literal
AttrDefault(attr) == [attr |-> attr]
LiteralDefault(key) == [literal |-> Val("default_fields", 0, key)]

\* _get_item_type_info: the item type's settings with the three setdefault
\* calls applied
ItemTypeInfos ==
    { [default_snapshot_type |-> DEFAULT_SNAPSHOT_TYPE,
       default_fields |-> EmptyDict],
      [default_snapshot_type |-> Val("settings", 0, "default_snapshot_type"),
       default_fields |-> ("output" :> LiteralDefault("output")) @@
                          ("shot" :> LiteralDefault("shot")) @@
                          ("name" :> AttrDefault("name"))],
      [default_snapshot_type |-> Val("settings", 0, "default_snapshot_type"),
       default_fields |-> ("snapshot_type" :> LiteralDefault("snapshot_type")) @@
                          ("display" :> AttrDefault("type"))] }

\* urllib.quote(task name, lowered and underscored)
QuotedTaskName == Val("task", 0, "name")

\* what the base class resolves on pass n: with or without a name, the name
\* taken from the task or not, with or without keys the manifest also has
BaseFieldsMenu(n) ==
    { ("name" :> QuotedTaskName),
      ("name" :> Val("base", n, "name")) @@ ("shot" :> Val("base", n, "shot")),
      ("name" :> QuotedTaskName) @@
      ("snapshot_type" :> Val("base", n, "snapshot_type")) @@
      ("output" :> Val("base", n, "output")),
      ("shot" :> Val("base", n, "shot")) }

\* item.properties.manifest_file_fields, where the item has them
ResolveManifestFields ==
    { ("shot" :> Val("manifest", 0, "shot")),
      ("shot" :> Val("manifest", 0, "shot")) @@
      ("snapshot_type" :> Val("manifest", 0, "snapshot_type")) @@
      ("name" :> Val("manifest", 0, "name")),
      ("output" :> Val("manifest", 0, "output")) @@
      ("snapshot_type" :> Val("manifest", 0, "snapshot_type")) }

ResolveItems ==
    { [name |-> Val("item", 0, "name"),
       type |-> Val("item", 0, "type"),
       task |-> task,
       item_info |-> info,
       properties |-> props] :
          task \in BOOLEAN,
          info \in ItemTypeInfos,
          props \in {EmptyDict} \cup
                    { ("manifest_file_fields" :> f) : f \in ResolveManifestFields } }

\* getattr(item, name) for "%name%", else the literal value
DefaultFieldValue(item, default) ==
    IF "attr" \in DOMAIN default THEN item[default.attr] ELSE default.literal

\* the defaults written over the manifest fields: every configured default
\* and the default snapshot_type are assigned, whatever fields already holds
ResolveItemFieldsDefaultsWin(item, base_fields) ==
    LET named == IF item.task /\ base_fields["name"] = QuotedTaskName
                 THEN DropKey(base_fields, "name") ELSE base_fields
        restored == IF "manifest_file_fields" \in DOMAIN item.properties
                    THEN item.properties["manifest_file_fields"] @@ named
                    ELSE named
        typed == ("snapshot_type" :> item.item_info.default_snapshot_type) @@ restored
        defaults == item.item_info.default_fields
    IN [k \in DOMAIN typed \cup DOMAIN defaults |->
           IF k \in DOMAIN defaults
           THEN DefaultFieldValue(item, defaults[k]) ELSE typed[k]]

\* the body of _resolve_item_fields after the base class returned base_fields
ResolveItemFields(item, base_fields) ==
    LET named == IF item.task /\ base_fields["name"] = QuotedTaskName
                 THEN DropKey(base_fields, "name") ELSE base_fields
        restored == IF "manifest_file_fields" \in DOMAIN item.properties
                    THEN item.properties["manifest_file_fields"] @@ named
                    ELSE named
        typed == IF "snapshot_type" \notin DOMAIN restored
                 THEN ("snapshot_type" :> item.item_info.default_snapshot_type) @@ restored
                 ELSE restored
        defaults == item.item_info.default_fields
    IN [k \in DOMAIN typed \cup DOMAIN defaults |->
           IF k \in DOMAIN typed
           THEN typed[k] ELSE DefaultFieldValue(item, defaults[k])]

\* one pass: fields["name"] of line 533 is read only for an item with a
\* task, and raises KeyError when the base class resolved no name
ResolvePass ==
    /\ r_pc = "ready"
    /\ r_passes < MaxPasses
    /\ \E base_fields \in BaseFieldsMenu(r_passes + 1) :
          IF r_item.task /\ "name" \notin DOMAIN base_fields
          THEN /\ r_raised' = "KeyError"
               /\ r_pc' = "raised"
               /\ UNCHANGED r_fields
          ELSE /\ r_fields' = ResolveItemFields(r_item, base_fields)
               /\ UNCHANGED <<r_raised, r_pc>>
    /\ r_passes' = r_passes + 1
    /\ UNCHANGED r_item
    /\ UNCHANGED <<manifestVars, collectVars, filterVars, mapperVars, tagVars, publishVars, contextVars, addVars, moreVars>>

\* ------------------------------------------------------------------------
\* _query_associated_tags as a call of its own
\* ------------------------------------------------------------------------
TagNamesMenu == {"main", "plate"}

\* the lists of tag names a call can be given, a name twice included
TagLists ==
    UNION { [1..len -> TagNamesMenu] : len \in 0..MaxTagNames }

\* one call, from "tag_entities = list()" to the return or the exception
QueryTagsCall ==
    /\ Len(t_calls) < MaxTagCalls
    /\ \E tags \in TagLists :
          LET q == QueryAssociatedTags(tags, TagQueryStart(sg_tags))
          IN /\ sg_tags' = q.db
             /\ t_calls' = Append(t_calls,
                               [tags |-> tags, before |-> sg_tags,
                                entities |-> q.entities, creates |-> q.creates,
                                raised |-> q.raised])
    /\ UNCHANGED <<entity_pos, keys_done, file_items, create_fail_tags,
                   find_raise_tags>>
    /\ UNCHANGED <<manifestVars, filterVars, mapperVars, resolveVars, publishVars, contextVars, addVars, moreVars>>

\* ------------------------------------------------------------------------
\* The match score of one candidate, over parser values of every form
\* ------------------------------------------------------------------------
\* parser values: both forms, an empty expected_result, an expected_result
\* that is not a number, and a string of neither form
ParserMenu ==
    { Parser("%", "eq", S_model, S_True),
      Parser("%", "ne", S_model, <<>>),
      Parser("#", "startswith", S_co, S_True),
      Parser("#", "count", S_a, S_2),
      Parser("#", "count", S_a, S_aa),
      Parser("none", "eq", S_model, S_True) }

\* manifest_field_filters over the fields the manifest can carry
FilterFields == {"department", "level"}
FilterSettingsMenu ==
    UNION { [names -> ParserMenu] : names \in SUBSET FilterFields }

\* the loop of lines 948 to 992 for one candidate
ComputeMatchScore ==
    /\ s_pc = "start"
    /\ s_score' = MatchScore(s_fields, s_filters)
    /\ s_pc' = "done"
    /\ UNCHANGED <<s_fields, s_filters>>
    /\ UNCHANGED <<settledVars, runVars, raceVars, queryVars, validateVars>>
\* ------------------------------------------------------------------------
\* _get_item_context_from_path run again and again for one path
\* ------------------------------------------------------------------------
\* the step the task of a path hangs on, if there is one
RunStep(world) ==
    IF world.path_step THEN PathStep
    ELSE IF world.vendor_step THEN VendorStep(world.entity)
    ELSE NoEntity

\* a Task of the database: its step, entity, project and content
TaskRow(world) ==
    [step |-> RunStep(world).id,
     entity |-> world.entity,
     project |-> "project",
     content |-> StepContent(RunStep(world))]

\* the Tasks task_filters select
MatchingTasks(tasks, world) ==
    IF world.entity = "None" \/ RunStep(world) = NoEntity THEN {}
    ELSE { n \in 1..Len(tasks) : tasks[n] = TaskRow(world) }

\* one run on the database as it stands; the create and update calls answer
\* as the run finds them
ContextRun ==
    /\ c_pc \in {"start", "done", "raised"}
    /\ Len(c_runs) < MaxRuns
    /\ \E create \in {"ok", "none", "raise"}, update \in {"ok", "raise"} :
         LET world == [c_world EXCEPT
                          !.task = MatchingTasks(sg_tasks, c_world) # {},
                          !.create = create,
                          !.update = update]
             r == GetItemContextFromPath(world)
             created == /\ create = "ok"
                        /\ \E n \in 1..Len(r.calls) : r.calls[n] = "create Task"
         IN /\ c_pc' = IF r.raised = "none" THEN "done" ELSE "raised"
            /\ c_context' = r.context
            /\ c_log' = c_log \o r.log
            /\ c_calls' = r.calls
            /\ sg_tasks' = IF created THEN Append(sg_tasks, TaskRow(world))
                           ELSE sg_tasks
            /\ c_runs' = Append(c_runs,
                                [found |-> world.task,
                                 calls |-> r.calls,
                                 raised |-> r.raised,
                                 context |-> r.context])
    /\ UNCHANGED c_world
    /\ UNCHANGED <<manifestVars, collectVars, filterVars, mapperVars,
                   resolveVars, tagVars, publishVars, addVars, scoreVars,
                   raceVars, queryVars, validateVars>>
\* ------------------------------------------------------------------------
\* Two ingestions of one manifest at the same time
\* ------------------------------------------------------------------------
Ingestions == {1, 2}

\* what both ingestions look up: the Tag names of a file group, or the
\* content of the vendor Task
RaceLookups ==
    { <<"Tag", names>> : names \in TagLists \ {<<>>} }
    \cup { <<"Task", <<"vendor">>>> }

\* an entity of the database and the ingestion that created it
RaceRow(type, name, by) == [type |-> type, name |-> name, by |-> by]

\* find_one(entity_type, [[name/content, "is", name]])
RaceFound(db, type, name) ==
    \E n \in 1..Len(db) : db[n].type = type /\ db[n].name = name

\* a create that looks the entity up again and creates it only if it is
\* still missing
CreateAfterFindRechecks(db, type, name, by) ==
    IF RaceFound(db, type, name) THEN db
    ELSE Append(db, RaceRow(type, name, by))

\* shotgun.create after a find_one that returned nothing
CreateAfterFind(db, type, name, by) == Append(db, RaceRow(type, name, by))

\* where an ingestion goes once it has dealt with n names
AfterName(n) == IF n < Len(x_names) THEN "find" ELSE "done"

\* the find_one of one ingestion for its next name
RaceFind(p) ==
    /\ x_pc[p] = "find"
    /\ LET n == Len(x_found[p]) + 1
           found == RaceFound(x_db, x_type, x_names[n])
       IN /\ x_found' = [x_found EXCEPT ![p] = Append(@, found)]
          /\ x_pc' = [x_pc EXCEPT ![p] = IF found THEN AfterName(n)
                                         ELSE "create"]
    /\ UNCHANGED <<x_type, x_names, x_db>>
    /\ UNCHANGED <<settledVars, scoreVars, runVars, queryVars, validateVars>>

\* the create of one ingestion for the name its find did not return
RaceCreate(p) ==
    /\ x_pc[p] = "create"
    /\ LET n == Len(x_found[p])
       IN /\ x_db' = CreateAfterFind(x_db, x_type, x_names[n], p)
          /\ x_pc' = [x_pc EXCEPT ![p] = AfterName(n)]
    /\ UNCHANGED <<x_type, x_names, x_found>>
    /\ UNCHANGED <<settledVars, scoreVars, runVars, queryVars, validateVars>>
\* ------------------------------------------------------------------------
\* ingest_files.py: validate and the asset type of a new linked Asset
\* ------------------------------------------------------------------------
\* the valid values of Asset.sg_asset_type the schema can have beforehand
AssetTypeSchemas == { <<"character">>, <<"character", "maya_model">> }

InSeq(x, s) == \E i \in 1..Len(s) : s[i] = x

ASSET_TYPE_ERROR == "error: failed to updated sg_asset_type schema"

\* _create_asset_type that answers False when the schema update fails
CreateAssetTypeRecovers(item, schema, update_ok) ==
    LET snapshot_type == item.snapshot_type
    IN IF ResolveLinkedEntityType(item) # "Asset"
       THEN [status |-> "None", schema |-> schema, log |-> <<>>]
       ELSE IF InSeq(snapshot_type, schema)
       THEN [status |-> "False", schema |-> schema, log |-> <<>>]
       ELSE IF update_ok
       THEN [status |-> "True", schema |-> Append(schema, snapshot_type),
             log |-> <<>>]
       ELSE [status |-> "False", schema |-> schema,
             log |-> <<ASSET_TYPE_ERROR>>]

\* _create_asset_type: for a linked Asset whose snapshot_type is not among
\* the valid values, the values are extended and the schema is updated
\* (True); a failing update is logged and answers None; a snapshot_type that
\* is a valid value already answers False; any other linked type falls off
\* the end of the function (None)
CreateAssetType(item, schema, update_ok) ==
    LET snapshot_type == item.snapshot_type
    IN IF ResolveLinkedEntityType(item) # "Asset"
       THEN [status |-> "None", schema |-> schema, log |-> <<>>]
       ELSE IF InSeq(snapshot_type, schema)
       THEN [status |-> "False", schema |-> schema, log |-> <<>>]
       ELSE IF update_ok
       THEN [status |-> "True", schema |-> Append(schema, snapshot_type),
             log |-> <<>>]
       ELSE [status |-> "None", schema |-> schema,
             log |-> <<ASSET_TYPE_ERROR>>]

\* what validate is run with: the answer of the base class, whether the
\* lookup finds a linked entity, and whether the schema update goes through
ValidateWorlds ==
    [status : BOOLEAN, found : BOOLEAN, update_ok : BOOLEAN]

\* validate: the answer of the base class, unless the asset type of a linked
\* Asset that is yet to be created could not be added to the schema
ValidateResult(item, world, schema) ==
    LET linked_entity_type == ResolveLinkedEntityType(item)
        found == world.found /\ linked_entity_type # UNLINKED_ENTITY_TYPE
        a == CreateAssetType(item, schema, world.update_ok)
        answer == IF world.status THEN "True" ELSE "False"
    IN IF world.status /\ linked_entity_type # UNLINKED_ENTITY_TYPE
       THEN IF found
            THEN [result |-> answer, schema |-> schema,
                  log |-> <<"info: Found a matching entity">>]
            ELSE IF linked_entity_type = "Asset"
            THEN IF a.status = "None"
                 THEN [result |-> "False", schema |-> a.schema, log |-> a.log]
                 ELSE [result |-> answer, schema |-> a.schema,
                       log |-> a.log
                               \o (IF a.status = "True"
                                   THEN <<"info: Created asset type">>
                                   ELSE <<>>)
                               \o <<"info: entity will be created of type">>]
            ELSE [result |-> answer, schema |-> schema,
                  log |-> <<"info: entity will be created">>]
       ELSE IF world.status
       THEN [result |-> answer, schema |-> schema,
             log |-> <<"info: Published Files will be created">>]
       ELSE [result |-> answer, schema |-> schema, log |-> <<>>]

Validate ==
    /\ v_pc = "start"
    /\ LET r == ValidateResult(v_item, v_world, v_schema)
       IN /\ v_result' = r.result
          /\ v_schema' = r.schema
          /\ v_log' = r.log
    /\ v_pc' = "done"
    /\ UNCHANGED <<v_item, v_world>>
    /\ UNCHANGED <<settledVars, scoreVars, runVars, raceVars, queryVars>>
\* ------------------------------------------------------------------------
\* _find_linked_entity: the query it issues, item after item
\* ------------------------------------------------------------------------
\* sg_filters of _find_linked_entity
LinkedEntityFilters(item) ==
    LET linked_entity_type == ResolveLinkedEntityType(item)
        ctx == item.context_entity
    IN << <<"project", "is", "project">>, <<"code", "is", item.code>> >>
       \o (IF ctx = "Shot" THEN << <<"sg_shot", "is", ctx>> >>
           ELSE IF ctx = "Sequence" THEN << <<"sg_sequence", "is", ctx>> >>
           ELSE IF ctx = "Asset" /\ linked_entity_type = "Asset"
           THEN << <<"parents", "is", ctx>> >>
           ELSE IF ctx = "Asset" /\ linked_entity_type = "Element"
           THEN << <<"assets", "in", ctx>> >>
           ELSE <<>>)
       \o (IF linked_entity_type = "Asset"
           THEN << <<"sg_asset_type", "is", item.snapshot_type>> >>
           ELSE <<>>)

\* fields.extend(['shots', 'code', 'id']): the list object grows in place
ExtendFields(fields) == fields \o <<"shots", "code", "id">>

\* the callers of _find_linked_entity: validate and undo pass a list of
\* their own, _create_linked_entity passes none and gets the default
FindCallers == {"validate", "undo", "_create_linked_entity"}
CallerFields(caller) ==
    CASE caller = "validate" -> <<"sg_status_list">>
      [] caller = "undo" -> <<"sg_published_files">>
      [] OTHER -> <<>>

\* one call of _find_linked_entity for an item with a linked entity type:
\* the list that arrives as "fields" is the caller's, or the one default list
\* of the function; it is extended and sent with the query
FindLinkedEntityCall ==
    /\ Len(q_queries) < MaxItems
    /\ \E item \in PublishItems, caller \in FindCallers :
         /\ ResolveLinkedEntityType(item) # UNLINKED_ENTITY_TYPE
         /\ LET fields == IF caller = "_create_linked_entity"
                          THEN q_default ELSE CallerFields(caller)
            IN /\ q_default' = IF caller = "_create_linked_entity"
                               THEN ExtendFields(fields) ELSE q_default
               /\ q_queries' = Append(q_queries,
                                      [item |-> item,
                                       caller |-> caller,
                                       entity_type |-> ResolveLinkedEntityType(item),
                                       filters |-> LinkedEntityFilters(item),
                                       fields |-> ExtendFields(fields)])
    /\ UNCHANGED <<settledVars, scoreVars, runVars, raceVars, validateVars>>
\* ------------------------------------------------------------------------
\* Specifications
\* ------------------------------------------------------------------------
vars == <<manifestVars, collectVars, filterVars, mapperVars, laterVars>>

\* the state of _process_manifest_file at its call, for a document with at
\* most maxS snapshots, maxN notes and maxV versions
ManifestInit(maxS, maxN, maxV) ==
    /\ file_state \in {"unreadable", "invalid", "ok"}
    /\ contents \in IF file_state = "ok"
                    THEN ManifestDocuments(maxS, maxN, maxV)
                    ELSE {EmptyDict}
    /\ pc = "read"
    /\ snapshots = <<>>
    /\ notes = <<>>
    /\ versions = <<>>
    /\ snap_pos = 0
    /\ notes_index = 0
    /\ processed_snapshots = <<>>
    /\ raised = "none"
    /\ log = <<>>

\* the tracking database holds one Tag; no call fails
CollectIdle ==
    /\ entity_pos = 0
    /\ keys_done = {}
    /\ file_items = <<>>
    /\ sg_tags = <<TagEntity(1, "mayaBinary")>>
    /\ create_fail_tags = {}
    /\ find_raise_tags = {}

\* the tracking database holds one Tag; all calls succeed, or the create of
\* some tags fails, or the find_one of a tag fails
CollectInit ==
    /\ entity_pos = 0
    /\ keys_done = {}
    /\ file_items = <<>>
    /\ sg_tags = <<TagEntity(1, "mayaBinary")>>
    /\ \E world \in { <<{}, {}>>, <<{"main", "plate"}, {}>>, <<{}, {"ref"}>> } :
           /\ create_fail_tags = world[1]
           /\ find_raise_tags = world[2]

FilterIdle ==
    /\ f_pc = "idle"
    /\ template_item_type_mapping = <<>>
    /\ creation_properties = EmptyDict
    /\ max_resolution_order = 0
    /\ filtered_mapping = <<>>
    /\ f_pos = 0
    /\ f_raised = "none"

MapperIdle ==
    /\ m_pc = "idle"
    /\ m_table = EmptyDict
    /\ m_key = ""
    /\ m_mapped = ""
    /\ m_back = ""

ResolveIdle ==
    /\ r_pc = "idle"
    /\ r_item = EmptyDict
    /\ r_fields = EmptyDict
    /\ r_passes = 0
    /\ r_raised = "none"

TagsIdle == t_calls = <<>>

PublishIdle ==
    /\ p_pc = "idle"
    /\ p_item = EmptyDict
    /\ p_props = EmptyDict
    /\ p_raised = "none"
    /\ p_calls = <<>>
    /\ sg_entities = {}
    /\ sg_published = {}
    /\ sg_next_id = 1
    /\ l_runs = 0

ContextIdle ==
    /\ c_pc = "idle"
    /\ c_world = EmptyDict
    /\ c_context = EmptyDict
    /\ c_log = <<>>
    /\ c_calls = <<>>

AddIdle ==
    /\ a_settings = EmptyDict
    /\ a_children = <<>>
    /\ a_log = <<>>
    /\ a_calls = <<>>

ScoreIdle ==
    /\ s_pc = "idle"
    /\ s_fields = EmptyDict
    /\ s_filters = EmptyDict
    /\ s_score = 0

RunsIdle == sg_tasks = <<>> /\ c_runs = <<>>

RaceIdle ==
    /\ x_type = "none"
    /\ x_names = <<>>
    /\ x_pc = EmptyDict
    /\ x_found = EmptyDict
    /\ x_db = <<>>

QueryIdle == q_default = <<>> /\ q_queries = <<>>

ValidateIdle ==
    /\ v_pc = "idle"
    /\ v_item = EmptyDict
    /\ v_world = EmptyDict
    /\ v_result = "none"
    /\ v_log = <<>>
    /\ v_schema = <<>>

MoreIdle ==
    ScoreIdle /\ RunsIdle /\ RaceIdle /\ QueryIdle /\ ValidateIdle

LaterIdle ==
    /\ ResolveIdle /\ TagsIdle /\ PublishIdle /\ ContextIdle /\ AddIdle
    /\ MoreIdle

\* _process_manifest_file
Init ==
    /\ ManifestInit(MaxSnapshots, MaxNotes, MaxVersions)
    /\ CollectIdle /\ FilterIdle /\ MapperIdle /\ LaterIdle

Next ==
    \/ ReadManifest
    \/ ProcessSnapshot
    \/ ProcessNote

Spec == Init /\ [][Next]_vars

\* _collect_manifest_file, which starts with _process_manifest_file
InitCollect ==
    /\ ManifestInit(CollectMaxSnapshots, CollectMaxNotes, CollectMaxVersions)
    /\ CollectInit /\ FilterIdle /\ MapperIdle /\ LaterIdle

NextCollect ==
    \/ ReadManifest
    \/ ProcessSnapshot
    \/ ProcessNote
    \/ CollectEntityWithoutFiles
    \/ CollectFileGroup
    \/ ReturnFileItems

SpecCollect == InitCollect /\ [][NextCollect]_vars

\* _get_filtered_item_types_from_settings, with manifest fields in the
\* creation properties or without
ManifestIdle ==
    /\ file_state = "ok"
    /\ contents = EmptyDict
    /\ pc = "idle"
    /\ snapshots = <<>>
    /\ notes = <<>>
    /\ versions = <<>>
    /\ snap_pos = 0
    /\ notes_index = 0
    /\ processed_snapshots = <<>>
    /\ raised = "none"
    /\ log = <<>>

InitFilter ==
    /\ f_pc = "call"
    /\ template_item_type_mapping \in BaseCandidateLists
    /\ creation_properties \in
           {EmptyDict} \cup
           { ("manifest_file_fields" :> fields) : fields \in ManifestFieldsMenu }
    /\ max_resolution_order = 0
    /\ filtered_mapping = <<>>
    /\ f_pos = 0
    /\ f_raised = "none"
    /\ ManifestIdle /\ CollectIdle /\ MapperIdle /\ LaterIdle

NextFilter ==
    \/ FilterBegin
    \/ FilterCandidate
    \/ FilterSort

SpecFilter == InitFilter /\ [][NextFilter]_vars

\* the Field Mapper alone: one key through one table and back
InitMapper ==
    /\ m_pc = "key"
    /\ m_table \in MappingTables
    /\ m_key \in ManifestKeys
    /\ m_mapped = ""
    /\ m_back = ""
    /\ ManifestIdle /\ CollectIdle /\ FilterIdle /\ LaterIdle

NextMapper ==
    \/ MapForward
    \/ MapBack

SpecMapper == InitMapper /\ [][NextMapper]_vars

\* _resolve_item_fields, called repeatedly on one item
InitResolve ==
    /\ MoreIdle
    /\ r_pc = "ready"
    /\ r_item \in ResolveItems
    /\ r_fields = EmptyDict
    /\ r_passes = 0
    /\ r_raised = "none"
    /\ ManifestIdle /\ CollectIdle /\ FilterIdle /\ MapperIdle /\ TagsIdle /\ PublishIdle /\ ContextIdle /\ AddIdle

NextResolve == ResolvePass

SpecResolve == InitResolve /\ [][NextResolve]_vars

\* _query_associated_tags, called several times one after the other
InitTags ==
    /\ MoreIdle
    /\ t_calls = <<>>
    /\ entity_pos = 0
    /\ keys_done = {}
    /\ file_items = <<>>
    /\ sg_tags \in {<<>>, <<TagEntity(1, "main")>>}
    /\ \E world \in { <<{}, {}>>, <<{"plate"}, {}>>, <<{}, {"plate"}>> } :
           /\ create_fail_tags = world[1]
           /\ find_raise_tags = world[2]
    /\ ManifestIdle /\ FilterIdle /\ MapperIdle /\ ResolveIdle /\ PublishIdle /\ ContextIdle /\ AddIdle

NextTags == QueryTagsCall

SpecTags == InitTags /\ [][NextTags]_vars

\* an entity the item's lookup matches, as the database holds it before publish
MatchingEntity(item, files) ==
    [WithData(BlankEntity(1, ResolveLinkedEntityType(item)), LinkedEntityData(item))
        EXCEPT !.assets = IF item.context_entity = "Asset" THEN {"Asset"} ELSE {},
               !.sg_published_files = files]

\* the item and the database at the call: no container entity yet, or one
\* the lookup matches, without or with a PublishedFile linked to it, its
\* status cleared by an earlier ingestion or still "ip"
PublishStart ==
    /\ p_item \in PublishItems
    /\ p_props = EmptyDict
    /\ p_raised = "none"
    /\ p_calls = <<>>
    /\ sg_entities \in
           {{}} \cup
           { {[MatchingEntity(p_item, files) EXCEPT !.sg_status_list = st]} :
                 files \in
                     IF ResolveLinkedEntityType(p_item) = UNLINKED_ENTITY_TYPE
                     THEN {} ELSE {{}, {"old"}},
                 st \in {None, "ip"} }
    /\ sg_published = UNION {e.sg_published_files : e \in sg_entities}
    /\ sg_next_id = 2
    /\ l_runs = 0
    /\ ManifestIdle /\ CollectIdle /\ FilterIdle /\ MapperIdle
    /\ ResolveIdle /\ TagsIdle /\ ContextIdle /\ AddIdle /\ MoreIdle

\* publish, followed or not by the host's undo
InitPublish == p_pc = "start" /\ PublishStart

NextPublish ==
    \/ PublishCreateLinkedEntity
    \/ PublishCreateFiles
    \/ PublishLink
    \/ PublishUndo
    \/ HostUndo

SpecPublish == InitPublish /\ [][NextPublish]_vars

\* _create_linked_entity, run repeatedly for one item
InitLinked == p_pc = "linked" /\ PublishStart

NextLinked == CreateLinkedEntityRun

SpecLinked == InitLinked /\ [][NextLinked]_vars


\* one call of _get_item_context_from_path in every world
InitContext ==
    /\ MoreIdle
    /\ ManifestIdle /\ CollectIdle /\ FilterIdle /\ MapperIdle
    /\ ResolveIdle /\ TagsIdle /\ PublishIdle /\ AddIdle
    /\ c_pc = "start"
    /\ c_world \in ContextWorlds
    /\ c_context = EmptyDict
    /\ c_log = <<>>
    /\ c_calls = <<>>

NextContext == GetItemContextFromPathCall

SpecContext == InitContext /\ [][NextContext]_vars

\* calls of _add_file_item on one parent item under every setting
InitAddItem ==
    /\ MoreIdle
    /\ ManifestIdle /\ CollectIdle /\ FilterIdle /\ MapperIdle
    /\ ResolveIdle /\ TagsIdle /\ PublishIdle /\ ContextIdle
    /\ a_settings \in IgnoreSettings
    /\ a_children = <<>>
    /\ a_log = <<>>
    /\ a_calls = <<>>

NextAddItem == AddFileItemCall

SpecAddItem == InitAddItem /\ [][NextAddItem]_vars

\* the match score of one candidate for every manifest and filter setting
InitScore ==
    /\ ManifestIdle /\ CollectIdle /\ FilterIdle /\ MapperIdle
    /\ ResolveIdle /\ TagsIdle /\ PublishIdle /\ ContextIdle /\ AddIdle
    /\ s_pc = "start"
    /\ s_fields \in ManifestFieldsMenu
    /\ s_filters \in FilterSettingsMenu
    /\ s_score = 0
    /\ RunsIdle /\ RaceIdle
    /\ QueryIdle /\ ValidateIdle

NextScore == ComputeMatchScore

SpecScore == InitScore /\ [][NextScore]_vars

\* sequential runs of the resolver for one path, on a database that holds
\* the path's task or does not
InitContextRuns ==
    /\ ManifestIdle /\ CollectIdle /\ FilterIdle /\ MapperIdle
    /\ ResolveIdle /\ TagsIdle /\ PublishIdle /\ AddIdle /\ ScoreIdle /\ RaceIdle
    /\ QueryIdle /\ ValidateIdle
    /\ c_pc = "start"
    /\ c_world \in { w \in ContextWorlds :
                        ~w.task /\ w.create = "ok" /\ w.update = "ok" }
    /\ c_context = EmptyDict
    /\ c_log = <<>>
    /\ c_calls = <<>>
    /\ sg_tasks \in {<<>>} \cup
                    (IF MatchingTasks(<<TaskRow(c_world)>>, c_world) # {}
                     THEN {<<TaskRow(c_world)>>} ELSE {})
    /\ c_runs = <<>>

NextContextRuns == ContextRun

SpecContextRuns == InitContextRuns /\ [][NextContextRuns]_vars

\* two ingestions of one manifest, their database calls interleaved; the
\* database holds the first name already or holds nothing
InitRace ==
    /\ ManifestIdle /\ CollectIdle /\ FilterIdle /\ MapperIdle
    /\ ResolveIdle /\ TagsIdle /\ PublishIdle /\ ContextIdle /\ AddIdle
    /\ ScoreIdle /\ RunsIdle
    /\ QueryIdle /\ ValidateIdle
    /\ \E lookup \in RaceLookups :
           /\ x_type = lookup[1]
           /\ x_names = lookup[2]
    /\ x_pc = [p \in Ingestions |-> "find"]
    /\ x_found = [p \in Ingestions |-> <<>>]
    /\ x_db \in {<<>>, <<RaceRow(x_type, x_names[1], 0)>>}

NextRace == \E p \in Ingestions : RaceFind(p) \/ RaceCreate(p)

SpecRace == InitRace /\ [][NextRace]_vars

\* one plugin instance that looks the linked entity up for item after item
InitQueries ==
    /\ ManifestIdle /\ CollectIdle /\ FilterIdle /\ MapperIdle
    /\ ResolveIdle /\ TagsIdle /\ PublishIdle /\ ContextIdle /\ AddIdle
    /\ ScoreIdle /\ RunsIdle /\ RaceIdle /\ ValidateIdle
    /\ q_default = <<>>
    /\ q_queries = <<>>

NextQueries == FindLinkedEntityCall

SpecQueries == InitQueries /\ [][NextQueries]_vars

\* validate run on one item
InitValidate ==
    /\ ManifestIdle /\ CollectIdle /\ FilterIdle /\ MapperIdle
    /\ ResolveIdle /\ TagsIdle /\ PublishIdle /\ ContextIdle /\ AddIdle
    /\ ScoreIdle /\ RunsIdle /\ RaceIdle /\ QueryIdle
    /\ v_pc = "start"
    /\ v_item \in PublishItems
    /\ v_world \in ValidateWorlds
    /\ v_schema \in AssetTypeSchemas
    /\ v_result = "none"
    /\ v_log = <<>>

NextValidate == Validate

SpecValidate == InitValidate /\ [][NextValidate]_vars
\* ------------------------------------------------------------------------
\* Properties of _process_manifest_file (checked under Spec)
\* ------------------------------------------------------------------------
\* the call has returned or was left by an exception
ParseFinished == pc \in {"parsed", "raised"}

\* the group of the note at list position i, once the note loop has passed it
NoteGroup(i) == processed_snapshots[Len(snapshots) + i + 1]

\* the group of the snapshot at list position j, once the first loop passed it
SnapshotGroup(j) == processed_snapshots[j + 1]

\* the notes at positions that have both a snapshot and a version
PairedNotes ==
    { i \in 0..(notes_index - 1) : i < Len(snapshots) /\ i < Len(versions) }

\* the notes at positions that lack a snapshot or lack a version
UnpairedNotes ==
    { i \in 0..(notes_index - 1) : i >= Len(snapshots) \/ i >= Len(versions) }

\* the records of position i as they were read, with their keys mapped
MappedSnapshot(i) == MapRecord(NoteSnapshotsMapping, contents["snapshots"][i + 1])
MappedVersion(i) == MapRecord(NoteVersionsMapping, contents["versions"][i + 1])
MappedNote(i) == MapRecord(NoteNotesMapping, contents["notes"][i + 1])

\* the value the precedence rule gives key k at position i
PrecedenceValue(i, k) ==
    IF k \in DOMAIN MappedSnapshot(i) THEN MappedSnapshot(i)[k]
    ELSE IF k \in DOMAIN MappedVersion(i) THEN MappedVersion(i)[k]
    ELSE MappedNote(i)[k]

SourceKeys(i) ==
    DOMAIN MappedSnapshot(i) \cup DOMAIN MappedVersion(i) \cup DOMAIN MappedNote(i)

\* the keys that do not go through the merge unchanged: file_types is dropped
\* from the snapshot contribution, notes from the version record,
\* attachments is rebuilt as a list of joined paths, and ingest_note_links is
\* written from the note's note_links
StructuralKeys == {"file_types", "notes", "attachments", "ingest_note_links"}

\* C1 as stated: for every paired note and EVERY mapped key, the merged field
\* is the snapshot's value if the snapshot has the key, else the version's,
\* else the note's own.
C1_PrecedenceAllKeys ==
    \A i \in PairedNotes : \A k \in SourceKeys(i) :
        /\ k \in DOMAIN NoteGroup(i).fields
        /\ NoteGroup(i).fields[k] = PrecedenceValue(i, k)

\* C1 amended: for every paired note and every mapped key other than
\* file_types, notes, attachments and ingest_note_links, the merged field is the snapshot's value
\* if the snapshot has the key, else the version's, else the note's own.
C1_Precedence ==
    \A i \in PairedNotes : \A k \in SourceKeys(i) \ StructuralKeys :
        /\ k \in DOMAIN NoteGroup(i).fields
        /\ NoteGroup(i).fields[k] = PrecedenceValue(i, k)

\* C1 witness: a merged paired note with a key all three records have and a
\* key only the version and the note have
C1_Witness ==
    \E i \in PairedNotes :
        /\ \E k \in SourceKeys(i) \ StructuralKeys :
               /\ k \in DOMAIN MappedSnapshot(i)
               /\ k \in DOMAIN MappedVersion(i)
               /\ k \in DOMAIN MappedNote(i)
        /\ \E k \in SourceKeys(i) \ StructuralKeys :
               /\ k \notin DOMAIN MappedSnapshot(i)
               /\ k \in DOMAIN MappedVersion(i)
               /\ k \in DOMAIN MappedNote(i)

\* the fields a note record yields on its own
NoteOnlyFields(note) ==
    ("attachments" :> AttachmentPaths(note["attachments"])) @@ NoteOwnFields(note)

\* the snapshots of the document all have a file_types mapping
SnapshotsWellFormed ==
    /\ file_state = "ok"
    /\ "snapshots" \in DOMAIN contents
    /\ \A j \in 1..Len(contents["snapshots"]) :
           "file_types" \in DOMAIN contents["snapshots"][j]

\* the positions of the document's notes that lack a snapshot or a version
DocumentUnpairedNotes ==
    { i \in 0..(Len(notes) - 1) : i >= Len(snapshots) \/ i >= Len(versions) }

\* C2: when the call has ended, every note at a position that lacks a
\* snapshot or lacks a version has a note group, and the group's fields come
\* from the note record alone.
C2_UnpairedNoteGroup ==
    (ParseFinished /\ SnapshotsWellFormed) =>
        \A i \in DocumentUnpairedNotes :
            /\ i < notes_index
            /\ NoteGroup(i).hook = "note"
            /\ NoteGroup(i).fields = NoteOnlyFields(contents["notes"][i + 1])

\* C7: a manifest that cannot be opened, cannot be deserialized or has no
\* snapshots key ends the call with an empty list, a logged error and no
\* exception.
C7_ReadFailureReturnsEmpty ==
    (ParseFinished /\ (file_state # "ok" \/ "snapshots" \notin DOMAIN contents)) =>
        /\ raised = "none"
        /\ processed_snapshots = <<>>
        /\ \E n \in 1..Len(log) : log[n].level = "error"

\* the tags of a tag list
TagsOf(tags) == {tags[n] : n \in 1..Len(tags)}

\* the group keys that carry file_type t in a group's files
KeysTagged(files, t) == {p \in DOMAIN files : t \in TagsOf(files[p])}

\* C8: for every processed snapshot and every file_types entry with a
\* frame_range, the only group key recorded for the entry is the directory of
\* its first listed file (joined onto the manifest's directory); the path of
\* that file is not the key and the other listed files add no keys.
C8_SequenceGroupKey ==
    \A j \in 0..(snap_pos - 1) :
        LET file_types == contents["snapshots"][j + 1]["file_types"]
        IN \A t \in DOMAIN file_types :
               "frame_range" \in DOMAIN file_types[t] =>
                   LET first == JoinPath(base_dir, file_types[t]["files"][1]["path"])
                   IN /\ KeysTagged(SnapshotGroup(j).files, t) = {DirName(first)}
                      /\ DirName(first) # first

\* C8 witness: a processed snapshot that has an entry with a frame_range and
\* two listed files, and a second entry
C8_Witness ==
    \E j \in 0..(snap_pos - 1) :
        LET file_types == contents["snapshots"][j + 1]["file_types"]
        IN /\ Cardinality(DOMAIN file_types) > 1
           /\ \E t \in DOMAIN file_types :
                  /\ "frame_range" \in DOMAIN file_types[t]
                  /\ Len(file_types[t]["files"]) > 1

\* ------------------------------------------------------------------------
\* Properties of _collect_manifest_file (checked under SpecCollect)
\* ------------------------------------------------------------------------
\* the merged manifest fields of the group a collected item came from: the
\* fields of its processed entity and, for a file group, the tags entry
GroupFieldsOf(g) ==
    LET e == processed_snapshots[g.entity]
        given == g.item.properties["manifest_file_fields"]
    IN IF e.hook = "file" /\ "tags" \in DOMAIN given
       THEN ("tags" :> given["tags"]) @@ e.fields
       ELSE e.fields

\* the names of the Tag entities of a tags field
TagNames(entities) == {entities[n].name : n \in 1..Len(entities)}

\* C10: every item in file_items (file item, folder-collected item, note item
\* with or without attachments) has manifest_file_fields equal to the merged
\* manifest fields of its group (for a file group with the group's tag
\* entities under "tags"), has each of these fields with the same value in
\* properties.fields, and has context_change_allowed = False.
C10_ManifestFieldsInjected ==
    \A n \in 1..Len(file_items) :
        LET g == file_items[n]
            e == processed_snapshots[g.entity]
            props == g.item.properties
        IN /\ "manifest_file_fields" \in DOMAIN props
           /\ props["manifest_file_fields"] = GroupFieldsOf(g)
           /\ e.hook = "file" =>
                  /\ "tags" \in DOMAIN props["manifest_file_fields"]
                  /\ TagNames(props["manifest_file_fields"]["tags"])
                         \subseteq TagsOf(e.files[g.key])
           /\ \A k \in DOMAIN props["manifest_file_fields"] :
                  /\ k \in DOMAIN props["fields"]
                  /\ props["fields"][k] = props["manifest_file_fields"][k]
           /\ g.item.context_change_allowed = FALSE

\* C10 witness: the call returned a file item, a folder-collected item and a
\* note item whose manifest fields replace a field the item had before
C10_Witness ==
    /\ pc = "done"
    /\ \E n \in 1..Len(file_items) : file_items[n].item.kind = "file"
    /\ \E n \in 1..Len(file_items) : file_items[n].item.kind = "folder"
    /\ \E n \in 1..Len(file_items) :
           /\ file_items[n].item.kind = "note"
           /\ \E k \in DOMAIN TemplateFields :
                  /\ k \in DOMAIN file_items[n].item.properties["manifest_file_fields"]
                  /\ file_items[n].item.properties["fields"][k] # TemplateFields[k]

\* ------------------------------------------------------------------------
\* Properties of _get_filtered_item_types_from_settings (under SpecFilter)
\* ------------------------------------------------------------------------
ManifestMode == "manifest_file_fields" \in DOMAIN creation_properties

\* the highest resolution_order among the base candidates
BaseMaxOrder ==
    MaxOf([n \in 1..Len(template_item_type_mapping) |->
              template_item_type_mapping[n][1]])

\* the base candidates the loop has passed
PassedCandidates ==
    {template_item_type_mapping[n] : n \in 1..f_pos}

StoredCandidates ==
    {filtered_mapping[n] : n \in 1..Len(filtered_mapping)}

\* the stored tuples of an item type
StoredFor(item_type) == {t \in StoredCandidates : t[3] = item_type}

FilterCount(candidate) == Cardinality(DOMAIN ManifestFieldFilters[candidate[3]])

CandidateScore(candidate) ==
    MatchScore(creation_properties["manifest_file_fields"],
               ManifestFieldFilters[candidate[3]])

\* a candidate with a template and at least one configured filter
Filtered(candidate) == candidate[2] # None /\ FilterCount(candidate) >= 1

HasTemplate(t) == t[2] # None

\* C4 as stated: the returned list is in ascending order of the stored
\* resolution_order, and among equal orders templated candidates come first.
C4_AscendingStoredOrder ==
    f_pc = "done" =>
        \A a, b \in 1..Len(filtered_mapping) :
            a < b =>
                /\ filtered_mapping[a][1] <= filtered_mapping[b][1]
                /\ filtered_mapping[a][1] = filtered_mapping[b][1] =>
                       ~(~HasTemplate(filtered_mapping[a])
                         /\ HasTemplate(filtered_mapping[b]))

\* the order a candidate is stored with
ExpectedStored(c) ==
    IF ManifestMode /\ Filtered(c)
    THEN << IF CandidateScore(c) = FilterCount(c)
            THEN c[1] - FilterCount(c) ELSE c[1] + BaseMaxOrder,
            c[2], c[3] >>
    ELSE c

\* the key the returned list is ordered by
OrderingKey(t) == IF HasTemplate(t) THEN t[1] - BaseMaxOrder ELSE t[1]

\* C4 amended: the returned list is in ascending order of the stored
\* resolution_order reduced by max_resolution_order for the candidates with a
\* work_path_template (so a templated candidate also precedes untemplated
\* candidates of lower order); among equal orders templated candidates come
\* first (max_resolution_order being positive); the returned tuples keep the
\* stored resolution_order.
C4_AscendingSortKey ==
    f_pc = "done" =>
        /\ \A a, b \in 1..Len(filtered_mapping) :
               a < b =>
                   /\ OrderingKey(filtered_mapping[a]) <= OrderingKey(filtered_mapping[b])
                   /\ filtered_mapping[a][1] = filtered_mapping[b][1] =>
                          ~(~HasTemplate(filtered_mapping[a])
                            /\ HasTemplate(filtered_mapping[b]))
        /\ \A t \in StoredCandidates :
               \E c \in PassedCandidates : t = ExpectedStored(c)

\* C4 witness: a returned list in which a templated candidate stands before
\* an untemplated candidate of lower stored order, and one with a tie
C4_Witness ==
    /\ f_pc = "done"
    /\ \E a, b \in 1..Len(filtered_mapping) :
           /\ a < b
           /\ HasTemplate(filtered_mapping[a])
           /\ ~HasTemplate(filtered_mapping[b])
           /\ filtered_mapping[a][1] > filtered_mapping[b][1]

C6_EmptyCandidatesReturnEmpty ==
    (template_item_type_mapping = <<>> /\ f_pc # "call") =>
        /\ f_raised = "none"
        /\ f_pc = "done"
        /\ filtered_mapping = <<>>

\* ------------------------------------------------------------------------
\* Properties of the Field Mapper (under SpecMapper)
\* ------------------------------------------------------------------------

\* C9 as stated: mapping a key forward through a table and back through the
\* inverse table returns the key, whether the key is in the table or absent
\* from it, also when an absent key equals one of the table's target names.
C9_RoundTripAnyKey ==
    m_pc = "back" => m_back = m_key

\* C9 amended: for the tables of DEFAULT_MANIFEST_SG_MAPPINGS the round trip
\* returns the key when it is a key of the table, and when it is absent from
\* the table and is not one of the table's target names.
C9_RoundTrip ==
    (/\ m_pc = "back"
     /\ \/ m_key \in DOMAIN m_table
        \/ m_key \notin TargetNames(m_table))
        => m_back = m_key

\* C9 witness: a key of the table, renamed on the way forward, has come back
C9_Witness ==
    /\ m_pc = "back"
    /\ m_key \in DOMAIN m_table
    /\ m_mapped # m_key
    /\ m_mapped = m_table[m_key]

\* ------------------------------------------------------------------------
\* Properties of _add_file_item
\* ------------------------------------------------------------------------
\* the children and the log after call n
ChildrenAfter(n) ==
    IF n = Len(a_calls) THEN a_children ELSE a_calls[n + 1].children_before
LogAfter(n) ==
    IF n = Len(a_calls) THEN a_log ELSE a_calls[n + 1].log_before

\* the path of call n has a listed extension or a file name that matches
IgnoredCall(n) ==
    \/ ExtensionIgnored(a_settings, a_calls[n].path)
    \/ FilenameIgnored(a_settings, a_calls[n].path)

\* C20: a call with a path whose extension is in Ignore Extensions or whose
\* file name matches an Ignore Filename pattern returns no item, leaves the
\* parent's children as they were and logs exactly one warning, for a single
\* file and for a sequence alike
C20_IgnoredPathMakesNoItem ==
    \A n \in 1..Len(a_calls) :
        IgnoredCall(n) =>
            /\ a_calls[n].item = NoItem
            /\ ChildrenAfter(n) = a_calls[n].children_before
            /\ Len(LogAfter(n)) = Len(a_calls[n].log_before) + 1
            /\ LogAfter(n)[Len(LogAfter(n))].level = "warning"

\* C20 witness: a sequence was ignored for its file name after a file was
\* added to the parent
C20_Witness ==
    /\ Len(a_calls) = 2
    /\ ~IgnoredCall(1)
    /\ a_calls[2].is_sequence
    /\ FilenameIgnored(a_settings, a_calls[2].path)
    /\ ~ExtensionIgnored(a_settings, a_calls[2].path)
    /\ Len(a_children) = 1
    /\ Len(a_log) = 1
\* ------------------------------------------------------------------------
\* Properties of _get_item_context_from_path
\* ------------------------------------------------------------------------
\* the call went as far as creating the vendor Task and the create failed
TaskCreateFailed ==
    /\ c_pc \in {"done", "raised"}
    /\ \E n \in 1..Len(c_calls) : c_calls[n] = "create Task"
    /\ c_world.create \in {"none", "raise"}

\* the step the resolver had before it looked for the task
AvailableStep ==
    IF c_world.path_step THEN PathStep ELSE VendorStep(c_world.entity)

\* C19: a failed create of the vendor Task, whether the create call raises
\* or returns nothing, is logged and not fatal: the resolver returns the
\* context resolved with the step it already had
C19_TaskCreateFailureNotFatal ==
    TaskCreateFailed =>
        /\ c_pc = "done"
        /\ Len(c_log) = 1
        /\ c_log[1].level = "error"
        /\ c_context = BaseContextFromPath(c_world, <<AvailableStep>>)
\* ------------------------------------------------------------------------
\* Properties of publish, undo and _create_linked_entity
\* (under SpecPublish, C14 under SpecLinked)
\* ------------------------------------------------------------------------
\* the calls of one kind made so far, as positions in p_calls
CallsOf(op) == {n \in 1..Len(p_calls) : p_calls[n].op = op}

Succeeded(op) == {n \in CallsOf(op) : p_calls[n].ok}
Failed(op) == {n \in CallsOf(op) : ~p_calls[n].ok}

\* the ids of the container entities this publish created
CreatedIds == {p_calls[n].id : n \in Succeeded("create")}

Linked == ResolveLinkedEntityType(p_item) # UNLINKED_ENTITY_TYPE

\* publish has returned after a PublishedFile was not created or the link
\* to the container entity failed
ReturnedAfterFailure ==
    /\ p_pc = "done"
    /\ Linked
    /\ Failed("publish") # {} \/ Failed("link") # {}

\* C13: if no PublishedFile is created or the linking fails, then when
\* publish returns the entity this publish created is deleted from the
\* database and ingest_entity_data is removed from the item (stated for the
\* runs in which this publish created the entity and no delete call failed).
C13_FailureReversesEntity ==
    (ReturnedAfterFailure /\ CreatedIds # {} /\ Failed("delete") = {}) =>
        /\ \A e \in sg_entities : e.id \notin CreatedIds
        /\ "ingest_entity_data" \notin DOMAIN p_props

\* C14: running _create_linked_entity twice in sequence for one item creates
\* the container entity at most once, for every context entity type and
\* every linked entity type.
C14_CreatedAtMostOnce ==
    p_pc = "linked" => Cardinality(Succeeded("create")) <= 1

\* C15: undo deletes only an entity that this publish created; an entity
\* that existed before publish and was updated is never deleted.
C15_UndoDeletesOnlyCreated ==
    \A n \in Succeeded("delete") : p_calls[n].id \in CreatedIds

\* the item carries ingest_entity_data from the moment the container entity
\* was created or updated
EntityStepDone == Succeeded("create") # {} \/ Succeeded("update") # {}

\* C16: undo issues the delete only for an entity without published files
\* (no entity with a published file linked to it is deleted), and
\* ingest_entity_data is removed from the item only when a delete succeeded.
C16_UndoSparesLinkedEntities ==
    /\ \A n \in CallsOf("delete") : p_calls[n].files = {}
    /\ \A e \in sg_entities : e.sg_published_files # {} => e.id \notin
           {p_calls[n].id : n \in Succeeded("delete")}
    /\ EntityStepDone =>
           ("ingest_entity_data" \notin DOMAIN p_props <=> Succeeded("delete") # {})

\* C16 witness: the host's undo has run after a publish that linked a
\* PublishedFile to the entity; the entity and ingest_entity_data are kept
C16_Witness ==
    /\ p_pc = "undone"
    /\ Succeeded("link") # {}
    /\ "ingest_entity_data" \in DOMAIN p_props
    /\ \E e \in sg_entities : e.sg_published_files # {}

\* C17: no create or update of the container entity happens before the
\* PublishedFile creation has completed successfully.
C17_EntityAfterPublishedFile ==
    \A n \in CallsOf("create") \cup CallsOf("update") :
        \E m \in Succeeded("publish") : m < n

\* C18: if the lookup or the create/update of _create_linked_entity raises,
\* the exception leaves publish, no PublishedFile is created, no link update
\* is issued and ingest_entity_data is not set.
C18_EntityFailurePropagates ==
    (Failed("find") \cap {1} # {} \/ Failed("create") # {} \/ Failed("update") # {}) =>
        /\ p_pc = "raised"
        /\ p_raised = "create_linked_entity"
        /\ CallsOf("publish") = {}
        /\ CallsOf("link") = {}
        /\ "ingest_entity_data" \notin DOMAIN p_props

\* C18 witness: the create call of a linked item has raised
C18_Witness ==
    /\ Linked
    /\ Failed("create") # {}
    /\ p_pc = "raised"

\* ------------------------------------------------------------------------
\* Properties of _resolve_item_fields (under SpecResolve)
\* ------------------------------------------------------------------------
HasManifestFields == "manifest_file_fields" \in DOMAIN r_item.properties

\* a pass has returned fields
Resolved == r_pc = "ready" /\ r_passes >= 1

\* C11: after any number of passes on an item that has manifest_file_fields,
\* every key of manifest_file_fields has its manifest value in the resolved
\* fields; the default snapshot_type and the configured default fields fill
\* only keys that are absent and never replace a manifest value.
C11_ManifestFieldsKept ==
    (Resolved /\ HasManifestFields) =>
        \A k \in DOMAIN r_item.properties["manifest_file_fields"] :
            /\ k \in DOMAIN r_fields
            /\ r_fields[k] = r_item.properties["manifest_file_fields"][k]

\* C11 witness: a second pass has returned for an item whose manifest fields
\* hold snapshot_type and a key that is also a configured default field
C11_Witness ==
    /\ Resolved
    /\ r_passes = 2
    /\ HasManifestFields
    /\ "snapshot_type" \in DOMAIN r_item.properties["manifest_file_fields"]
    /\ \E k \in DOMAIN r_item.item_info.default_fields :
           k \in DOMAIN r_item.properties["manifest_file_fields"]
    /\ \E k \in DOMAIN r_item.item_info.default_fields :
           /\ k \notin DOMAIN r_item.properties["manifest_file_fields"]
           /\ k \in DOMAIN r_fields

\* ------------------------------------------------------------------------
\* Properties of _query_associated_tags (under SpecTags)
\* ------------------------------------------------------------------------
\* how often name stands in a list of names
Occurrences(names, name) == Cardinality({n \in 1..Len(names) : names[n] = name})

\* the names of a call whose create, if one is issued, succeeds
CreatableNames(call) ==
    {call.tags[n] : n \in 1..Len(call.tags)} \ create_fail_tags

\* C12: a call for a tag name that does not exist issues exactly one create
\* for it and returns the created entity; a call for a name that exists
\* (also one created by an earlier call) issues no create; the database
\* never holds two Tags of one name.
C12_FindOrCreateOnce ==
    /\ \A name \in TagNamesMenu : Cardinality(TagsNamed(sg_tags, name)) <= 1
    /\ \A c \in 1..Len(t_calls) :
           t_calls[c].raised = "none" =>
               \A name \in CreatableNames(t_calls[c]) :
                   /\ Occurrences(t_calls[c].creates, name) =
                          IF TagsNamed(t_calls[c].before, name) = {} THEN 1 ELSE 0
                   /\ \E n \in 1..Len(t_calls[c].entities) :
                          /\ t_calls[c].entities[n].name = name
                          /\ t_calls[c].entities[n] \in
                                 {sg_tags[m] : m \in 1..Len(sg_tags)}

\* C12 witness: a call created a tag that did not exist and a later call for
\* the same name returned it without a create
C12_Witness ==
    \E c, d \in 1..Len(t_calls) :
        /\ c < d
        /\ \E name \in CreatableNames(t_calls[c]) \cap CreatableNames(t_calls[d]) :
               /\ TagsNamed(t_calls[c].before, name) = {}
               /\ Occurrences(t_calls[c].creates, name) = 1
               /\ t_calls[d].raised = "none"
               /\ Occurrences(t_calls[d].creates, name) = 0

\* ------------------------------------------------------------------------
\* Further properties of _collect_manifest_file (checked under SpecCollect)
\* ------------------------------------------------------------------------
\* the call has returned or was left by an exception
CollectFinished == pc \in {"done", "raised"}

\* the attachments of a note record; a record without the key has none
AttachmentsOf(note) ==
    IF "attachments" \in DOMAIN note THEN note["attachments"] ELSE <<>>

\* the positions in processed_snapshots of the groups made for note i
NoteGroupsOf(i) ==
    { n \in 1..Len(processed_snapshots) :
          /\ processed_snapshots[n].hook = "note"
          /\ n = Len(snapshots) + i + 1 }

\* the items collected from the entity at position n
ItemsOf(n) == { m \in 1..Len(file_items) : file_items[m].entity = n }

\* C24: when the call has ended, every note record of the manifest, also one
\* with an empty attachments list or none, has exactly one note group and at
\* most one note item; the group's file keys are the first attachment's path
\* alone (none for a note without files) and its attachments field lists the
\* paths of all attachments in manifest order
C24_EveryNoteOneGroup ==
    (CollectFinished /\ SnapshotsWellFormed) =>
        \A i \in 0..(Len(notes) - 1) :
            LET attachments == AttachmentsOf(contents["notes"][i + 1])
            IN /\ Cardinality(NoteGroupsOf(i)) = 1
               /\ \A n \in NoteGroupsOf(i) :
                      /\ DOMAIN processed_snapshots[n].files =
                             DOMAIN NoteFiles(attachments)
                      /\ processed_snapshots[n].fields["attachments"] =
                             AttachmentPaths(attachments)
                      /\ Cardinality(ItemsOf(n)) <= 1

\* the tag names whose find or whose create fails
FailingTags == find_raise_tags \cup create_fail_tags

\* C25: a failing find or create of one Tag never leaves
\* _collect_manifest_file: the failure is logged, the tag is skipped, and
\* every group of every record is still processed, its items carrying the
\* Tag entities of the other names
C25_TagFailureSkipsTag ==
    /\ raised # "ShotgunError"
    /\ (pc = "done" /\ FailingTags # {}) =>
           /\ entity_pos = Len(processed_snapshots)
           /\ \A m \in 1..Len(file_items) :
                  LET g == file_items[m]
                      e == processed_snapshots[g.entity]
                  IN e.hook = "file" =>
                         TagNames(g.item.properties["manifest_file_fields"]["tags"]) =
                             TagsOf(e.files[g.key]) \ FailingTags
           /\ (\E n \in 1..Len(processed_snapshots) :
                   \E k \in DOMAIN processed_snapshots[n].files :
                       processed_snapshots[n].hook = "file"
                       /\ TagsOf(processed_snapshots[n].files[k]) \cap FailingTags # {})
                  => \E n \in 1..Len(log) : log[n].level = "error"
\* ------------------------------------------------------------------------
\* Further properties of _get_filtered_item_types_from_settings
\* ------------------------------------------------------------------------
\* the base candidate a returned tuple was stored for
BaseCandidateOf(t) ==
    CHOOSE c \in PassedCandidates : c[3] = t[3]

\* a returned tuple of a candidate with a template and filters of which not
\* all matched
NearMiss(t) ==
    /\ Filtered(BaseCandidateOf(t))
    /\ CandidateScore(BaseCandidateOf(t)) < FilterCount(BaseCandidateOf(t))

\* C21: in the list returned in manifest mode a near-miss candidate stands
\* behind every candidate without filter configuration, with or without a
\* work_path_template and whatever its resolution_order
C21_NearMissBehindUnfiltered ==
    (f_pc = "done" /\ ManifestMode) =>
        \A a, b \in 1..Len(filtered_mapping) :
            (/\ NearMiss(filtered_mapping[a])
             /\ FilterCount(filtered_mapping[b]) = 0) => b < a
\* ------------------------------------------------------------------------
\* Properties of the queries of _find_linked_entity
\* ------------------------------------------------------------------------
\* C28: the query _find_linked_entity issues for an item on behalf of a
\* caller has the same filters and the same field list however many items
\* the plugin instance has processed before
C28_QueryIndependentOfHistory ==
    \A a, b \in 1..Len(q_queries) :
        (/\ q_queries[a].item = q_queries[b].item
         /\ q_queries[a].caller = q_queries[b].caller) =>
            /\ q_queries[a].filters = q_queries[b].filters
            /\ q_queries[a].fields = q_queries[b].fields
\* ------------------------------------------------------------------------
\* Further properties of _process_manifest_file (checked under Spec)
\* ------------------------------------------------------------------------
\* the file_types of the snapshot at list position j
FileTypesAt(j) == contents["snapshots"][j + 1]["file_types"]

\* the listings of group key k in a file_types entry without frame_range
Listings(spec, k) ==
    { n \in 1..Len(spec["files"]) : DiscreteGroupKey(spec["files"][n]) = k }

\* the group keys of the files listed in entries without frame_range
DiscreteKeys(file_types) ==
    UNION { { DiscreteGroupKey(file_types[t]["files"][n]) :
                  n \in 1..Len(file_types[t]["files"]) } :
            t \in { t \in DOMAIN file_types :
                        "frame_range" \notin DOMAIN file_types[t] } }

\* the file_type names that list group key k
ListingTypes(file_types, k) ==
    { t \in DOMAIN file_types :
          IF "frame_range" \in DOMAIN file_types[t]
          THEN SequenceGroupKey(file_types[t]) = k
          ELSE Listings(file_types[t], k) # {} }

\* how often a name stands in a tag list
TagCount(tags, t) == Cardinality({ n \in 1..Len(tags) : tags[n] = t })

\* C23 as stated: for every processed snapshot, each file listed in an
\* entry without frame_range is a group key of its own; the tags of the key
\* are exactly the file_type names that list the path, each name once even
\* if the path is listed repeatedly
C23_TagsAreSets ==
    \A j \in 0..(snap_pos - 1) :
        \A k \in DiscreteKeys(FileTypesAt(j)) :
            /\ k \in DOMAIN SnapshotGroup(j).files
            /\ TagsOf(SnapshotGroup(j).files[k]) = ListingTypes(FileTypesAt(j), k)
            /\ \A t \in ListingTypes(FileTypesAt(j), k) :
                   TagCount(SnapshotGroup(j).files[k], t) = 1

\* C23 amended: for every processed snapshot, each file listed in an entry
\* without frame_range is a group key of its own; the tags of the key are a
\* list that holds exactly the file_type names that list the path, a name
\* once for every time its entry lists the path
C23_TagsPerListing ==
    \A j \in 0..(snap_pos - 1) :
        \A k \in DiscreteKeys(FileTypesAt(j)) :
            /\ k \in DOMAIN SnapshotGroup(j).files
            /\ TagsOf(SnapshotGroup(j).files[k]) = ListingTypes(FileTypesAt(j), k)
            /\ \A t \in ListingTypes(FileTypesAt(j), k) :
                   "frame_range" \notin DOMAIN FileTypesAt(j)[t] =>
                       TagCount(SnapshotGroup(j).files[k], t) =
                           Cardinality(Listings(FileTypesAt(j)[t], k))

\* C23 witness: a processed snapshot with a path that one entry lists twice,
\* which stands in the group's files with two tags, and a path listed once
C23_Witness ==
    \E j \in 0..(snap_pos - 1) :
        /\ \E k \in DiscreteKeys(FileTypesAt(j)) :
               \E t \in ListingTypes(FileTypesAt(j), k) :
                   /\ "frame_range" \notin DOMAIN FileTypesAt(j)[t]
                   /\ Cardinality(Listings(FileTypesAt(j)[t], k)) = 2
                   /\ Len(SnapshotGroup(j).files[k]) = 2
        /\ \E k \in DiscreteKeys(FileTypesAt(j)) :
               Len(SnapshotGroup(j).files[k]) = 1
\* ------------------------------------------------------------------------
\* The status of the container entity during publish (under SpecPublish)
\* ------------------------------------------------------------------------
\* the ids of the container entities this publish created or updated
TouchedIds ==
    {p_calls[n].id : n \in Succeeded("create") \cup Succeeded("update")}

\* C30: a container entity publish created or updated has the status "ip"
\* until a clear of its status succeeds; the clear is issued only right
\* after the published files were linked to that entity successfully, and
\* never when the PublishedFile was not created or the link failed
C30_StatusLifecycle ==
    /\ \A e \in sg_entities :
          e.id \in TouchedIds =>
              e.sg_status_list = IF \E n \in Succeeded("clear") : p_calls[n].id = e.id
                                 THEN None ELSE "ip"
    /\ \A n \in CallsOf("clear") :
          /\ n > 1
          /\ p_calls[n - 1].op = "link"
          /\ p_calls[n - 1].ok
          /\ p_calls[n - 1].id = p_calls[n].id
    /\ (Failed("publish") # {} \/ Failed("link") # {}) => CallsOf("clear") = {}

\* C30 witness: publish has returned after it updated an entity whose status
\* was clear, linked the new PublishedFile to it and cleared the status again
C30_Witness ==
    /\ p_pc = "done"
    /\ Succeeded("update") # {}
    /\ Succeeded("link") # {}
    /\ Succeeded("clear") # {}
    /\ \E e \in sg_entities :
          /\ e.id \in TouchedIds
          /\ "new" \in e.sg_published_files
          /\ e.sg_status_list = None
\* ------------------------------------------------------------------------
\* Properties of two ingestions at the same time
\* ------------------------------------------------------------------------
\* the entities of a name that ingestion p created
CreatedBy(p, name) ==
    { n \in 1..Len(x_db) : x_db[n].by = p /\ x_db[n].name = name }

\* the finds of ingestion p for a name that returned nothing and whose
\* create has been made
MissedFinds(p, name) ==
    { n \in 1..Len(x_found[p]) :
          /\ x_names[n] = name
          /\ ~x_found[p][n]
          /\ ~(n = Len(x_found[p]) /\ x_pc[p] = "create") }

\* C27: find and create are two calls with nothing held between them: an
\* ingestion creates the entity for every find of its own that returned
\* nothing, whatever the other ingestion created in between, so two
\* ingestions whose finds both ran first both create it
C27_CreateFollowsOwnFind ==
    \A p \in DOMAIN x_pc :
        \A n \in 1..Len(x_names) :
            Cardinality(CreatedBy(p, x_names[n])) =
                Cardinality(MissedFinds(p, x_names[n]))

\* C27 witness: both ingestions are done and the database holds two
\* entities of one name, one created by each
C27_Witness ==
    /\ x_type # "none"
    /\ \A p \in DOMAIN x_pc : x_pc[p] = "done"
    /\ \E name \in {x_names[n] : n \in 1..Len(x_names)} :
           /\ CreatedBy(1, name) # {}
           /\ CreatedBy(2, name) # {}
\* ------------------------------------------------------------------------
\* Properties of repeated context resolution
\* ------------------------------------------------------------------------
RunIssued(n, call) ==
    \E m \in 1..Len(c_runs[n].calls) : c_runs[n].calls[m] = call

\* run n ended with a vendor task, found or newly created
RunEndedWithTask(n) ==
    /\ c_runs[n].raised = "none"
    /\ "task" \in DOMAIN c_runs[n].context
    /\ c_runs[n].context.task # NoEntity

\* C26: every run that ends with a vendor task issues the update of the
\* task's status; a create is issued only in a run whose find returned
\* nothing; there is never more than one Task for the step, entity, project
\* and content, and exactly one once a run has ended with a task
C26_TaskFoundOrCreatedOnce ==
    /\ \A n \in 1..Len(c_runs) :
           /\ RunEndedWithTask(n) =>
                  RunIssued(n, "update Task") \/ RunIssued(n, "update Task raised")
           /\ RunIssued(n, "create Task") =>
                  ~c_runs[n].found /\ RunIssued(n, "find_one Task")
    /\ Cardinality(MatchingTasks(sg_tasks, c_world)) <= 1
    /\ (\E n \in 1..Len(c_runs) : RunEndedWithTask(n)) =>
           Cardinality(MatchingTasks(sg_tasks, c_world)) = 1

\* C26 witness: three runs, the first created the task, the others found it
\* and set its status again
C26_Witness ==
    /\ Len(c_runs) = 3
    /\ RunIssued(1, "create Task") /\ RunEndedWithTask(1)
    /\ \A n \in 2..3 :
           /\ c_runs[n].found
           /\ ~RunIssued(n, "create Task")
           /\ RunEndedWithTask(n)
           /\ RunIssued(n, "update Task") \/ RunIssued(n, "update Task raised")
\* ------------------------------------------------------------------------
\* Properties of the match score
\* ------------------------------------------------------------------------
\* the value of a filter's field, if the manifest has a non-empty one
HasFieldValue(field) ==
    field \in DOMAIN s_fields /\ s_fields[field] # <<>>

\* the method result of a filter whose parser value has one of the two forms
MethodResult(field) == RawFilterResult(s_fields[field], s_filters[field])

\* expected_result converted to the type of the result: bool(text) is true
\* of a non-empty text, int(text) fails unless text is a number
CoercionFails(field) ==
    /\ MethodResult(field).type = "int"
    /\ ~IntParses(s_filters[field].expected_result)

EqualsCoerced(field) ==
    IF MethodResult(field).type = "bool"
    THEN MethodResult(field).bool = (s_filters[field].expected_result # <<>>)
    ELSE MethodResult(field).int = IntOf(s_filters[field].expected_result, 0)

\* C22 as stated: the score is the number of filters whose method result
\* equals expected_result converted to the result's type, boolean results
\* included; a failed conversion, a parser value of neither form and an
\* absent or empty field count as no match
C22_ScoreComparesEveryResult ==
    s_pc = "done" =>
        s_score = Cardinality({ field \in DOMAIN s_filters :
                                    /\ HasFieldValue(field)
                                    /\ s_filters[field].form \in {"%", "#"}
                                    /\ ~CoercionFails(field)
                                    /\ EqualsCoerced(field) })

\* C22 amended: a boolean result counts when it is True, whatever
\* expected_result says; any other result counts when it equals
\* expected_result converted to the result's type; a failed conversion, a
\* parser value of neither form and an absent or empty field count as no
\* match
C22_ScoreCountsTrueResults ==
    s_pc = "done" =>
        s_score = Cardinality({ field \in DOMAIN s_filters :
                                    /\ HasFieldValue(field)
                                    /\ s_filters[field].form \in {"%", "#"}
                                    /\ IF MethodResult(field).type = "bool"
                                       THEN MethodResult(field).bool
                                       ELSE /\ ~CoercionFails(field)
                                            /\ EqualsCoerced(field) })

\* C22 witness: a score of 1 from two filters, a boolean result that is True
\* with an empty expected_result and a count whose expected_result is not a
\* number
C22_Witness ==
    /\ s_pc = "done"
    /\ s_score = 1
    /\ DOMAIN s_filters = FilterFields
    /\ HasFieldValue("department") /\ HasFieldValue("level")
    /\ MethodResult("department") = BoolResult(TRUE)
    /\ s_filters["department"].expected_result = <<>>
    /\ CoercionFails("level")
\* ------------------------------------------------------------------------
\* Properties of validate
\* ------------------------------------------------------------------------
\* validate has run and the update of the sg_asset_type schema failed: the
\* base class accepted the item, a linked Asset is yet to be created, its
\* snapshot_type was not a valid value and the update raised
AssetTypeUpdateFailed ==
    /\ v_pc = "done"
    /\ v_world.status
    /\ ResolveLinkedEntityType(v_item) = "Asset"
    /\ ~v_world.found
    /\ ~InSeq(v_item.snapshot_type, v_schema)
    /\ ~v_world.update_ok

\* C29 as stated: a failed update of the asset-type schema is logged and
\* does not abort the item, validation goes on and answers what the base
\* class answered
C29_SchemaFailureDoesNotAbort ==
    AssetTypeUpdateFailed =>
        /\ InSeq(ASSET_TYPE_ERROR, v_log)
        /\ v_result = "True"

\* C29: a failed update of the asset-type schema is logged and aborts the
\* item: validate answers False, logs nothing further and leaves the schema
\* as it was
C29_SchemaFailureAbortsItem ==
    AssetTypeUpdateFailed =>
        /\ v_log = <<ASSET_TYPE_ERROR>>
        /\ v_result = "False"

C29_Witness ==
    /\ AssetTypeUpdateFailed
    /\ v_result = "False"
    /\ v_item.context_entity = "Shot"
====
